---------------------------- MODULE Spec2Model ----------------------------
(***************************************************************************)
(* l-essence-inventario: a product-catalogue REST API kept in several      *)
(* revisions of the same Express application.                              *)
(*                                                                         *)
(*   part000  src/unnamed/part_000   nested presentaciones, token gate     *)
(*                                   registered after every route          *)
(*   nested   src/server.js 1-443    nested presentaciones, publicRoutes   *)
(*   flat     src/server.js 444-957  flat stock, key (codigo, volumen)     *)
(*   mixed    src/server.js 958-1434 flat stock and presentaciones         *)
(*   app      src/app.js             in-memory inventory                   *)
(*   part001  src/unnamed/part_001   in-memory inventory, expiring tokens  *)
(*                                                                         *)
(* A process runs one revision.  A step of the model is one HTTP exchange: *)
(* Express walks the layers in registration order and the first matching   *)
(* route handler answers; the collection is the only state that survives   *)
(* the request.  Between exchanges no request object exists (req is         *)
(* NoRequest); a client may send the request it has just sent once more.   *)
(* Documents and payloads are functions from the names of    *)
(* the fields that are present to their values, so an omitted field is a   *)
(* name outside the DOMAIN.                                                *)
(***************************************************************************)
EXTENDS Integers, Sequences, FiniteSets, TLC

VARIABLES
    rev,        \* the revision the process runs
    store,      \* the Product collection, in natural (insertion) order
    req,        \* the request of the last exchange
    res,        \* the response of the last exchange
    attempt,    \* how often that request was sent; 0 between exchanges
    inventory,  \* the in-memory revisions' inventory list
    issued,     \* tokens handed out by POST /token
    now,        \* the clock jwt.verify reads
    nextId,     \* the number of the next _id the store hands out
    up,         \* the Node process is running
    rejected,   \* how the store rejected the bulk write of the last exchange
    sent,       \* the response has left the process (SpecLive)
    handlers    \* the handlers suspended at an await (SpecConc)

vars ==
    <<rev, store, req, res, attempt, inventory, issued, now, nextId, up,
      rejected, sent, handlers>>

(***************************************************************************)
(* Bounds of the model.                                                    *)
(***************************************************************************)
MaxDocs == 2
MaxBatch == 2
MaxInventory == 2
MaxClock == 2
MaxHandlers == 2

DbRevs == {"part000", "nested", "flat", "mixed"}
NestedRevs == {"part000", "nested"}
SkipInvalidRevs == {"part000", "nested", "mixed"}
MemRevs == {"app", "part001"}

(***************************************************************************)
(* Small helpers on sequences and on field maps.                           *)
(***************************************************************************)
Has(p, f) == f \in DOMAIN p

\* JavaScript's !x for a string-valued field: undefined and '' are falsy.
Falsy(p, f) == ~Has(p, f) \/ p[f] = ""

\* x || d for a number-valued field of p.
OrZero(p, f) == IF Has(p, f) THEN p[f] ELSE 0

Restrict(p, fs) == [f \in (DOMAIN p) \cap fs |-> p[f]]

RemoveAt(s, i) == SubSeq(s, 1, i - 1) \o SubSeq(s, i + 1, Len(s))

(***************************************************************************)
(* The schema's value sets.                                                *)
(***************************************************************************)
GeneroEnum == {"Masculino", "Femenino", "Unisex"}
PresentacionEnum == {"50ml", "100ml"}

(***************************************************************************)
(* The destructuring defaults of app.post('/products'): the fields the     *)
(* handler writes with $set and the value each takes when the payload      *)
(* omits it.                                                               *)
(***************************************************************************)
DefaultsPart000 ==
    [location |-> "", precio |-> 0, precio_neto |-> 0, precio_neto_cs |-> 0,
     descripcion |-> "", marca |-> "", genero |-> "Unisex", categoria |-> "",
     etiquetas |-> <<>>, tiene_descuento |-> FALSE,
     porcentaje_descuento |-> 0, precio_con_descuento |-> 0,
     imagen_primaria |-> "", imagen_secundaria |-> "",
     imagen_alternativa |-> ""]

DefaultsNested ==
    [nombre |-> "", concentracion_alcohol |-> 0] @@ DefaultsPart000

\* Variant of DefaultsFlat: genero defaults to 'Masculino'.
DefaultsFlatMasculino ==
    [genero |-> "Masculino", stock |-> 0] @@ DefaultsNested

DefaultsFlat ==
    [stock |-> 0] @@ DefaultsNested

DefaultsMixed ==
    [stock |-> 0] @@ DefaultsNested

Defaults(r) ==
    CASE r = "part000" -> DefaultsPart000
      [] r = "nested" -> DefaultsNested
      [] r = "flat" -> DefaultsFlat
      [] r = "mixed" -> DefaultsMixed

\* The descriptive fields: what $set writes, stock apart.
DescriptiveFields(r) == (DOMAIN Defaults(r)) \ {"stock"}

\* The $set document built from a payload: every field of the destructuring,
\* the payload's value when it is given and the default otherwise.
SetDoc(r, p) ==
    [f \in DOMAIN Defaults(r) |-> IF Has(p, f) THEN p[f] ELSE Defaults(r)[f]]

(***************************************************************************)
(* The document store, as far as the handlers use it.                      *)
(***************************************************************************)
\* An equality filter: every field of the filter is in the document with
\* that value.
MatchesFilter(doc, filter) ==
    \A f \in DOMAIN filter : Has(doc, f) /\ doc[f] = filter[f]

Min(S) == CHOOSE x \in S : \A y \in S : x <= y

\* findOne: the position of the first matching document in natural order,
\* 0 when there is none.
FindOne(s, filter) ==
    LET hits == {i \in 1..Len(s) : MatchesFilter(s[i], filter)}
    IN  IF hits = {} THEN 0 ELSE Min(hits)

\* The position of the first element of doc.presentaciones that names p.
PresIndex(doc, p) ==
    LET hits == {j \in 1..Len(doc.presentaciones) :
                    doc.presentaciones[j].presentacion = p}
    IN  IF hits = {} THEN 0 ELSE Min(hits)

\* The first document that matches the filter and holds presentation p
\* (the query {..., 'presentaciones.presentacion': p}).
FindOnePres(s, filter, p) ==
    LET hits == {i \in 1..Len(s) :
                    /\ MatchesFilter(s[i], filter)
                    /\ Has(s[i], "presentaciones")
                    /\ PresIndex(s[i], p) # 0}
    IN  IF hits = {} THEN 0 ELSE Min(hits)

\* What an upsert adds to the document it inserts besides the filter's
\* fields and the $set: the schema's array path starts as the empty list.
InsertDefaults(r) ==
    IF r = "flat" THEN <<>> ELSE [presentaciones |-> <<>>]

\* Variant of UpsertOne: an insert whether or not a document matches.
InsertOne(r, s, filter, set) ==
    [store |-> Append(s, set @@ filter @@ InsertDefaults(r)),
     upserted |-> 1, modified |-> 0]

\* updateOne(filter, {$set: set}, {upsert: true}).
UpsertOne(r, s, filter, set) ==
    LET i == FindOne(s, filter)
    IN  IF i = 0
        THEN [store |-> Append(s, set @@ filter @@ InsertDefaults(r)),
              upserted |-> 1, modified |-> 0]
        ELSE LET doc == set @@ s[i]
             IN  [store |-> [s EXCEPT ![i] = doc],
                  upserted |-> 0,
                  modified |-> IF doc = s[i] THEN 0 ELSE 1]

\* Variant of IncStock: the posted stock replaces the stored one.
SetStock(s, filter, p, by) ==
    LET i == FindOnePres(s, filter, p)
    IN  IF i = 0
        THEN [store |-> s, upserted |-> 0, modified |-> 0]
        ELSE LET j == PresIndex(s[i], p)
                 el2 == [stock |-> by] @@ s[i].presentaciones[j]
                 doc == [presentaciones |->
                            [s[i].presentaciones EXCEPT ![j] = el2]] @@ s[i]
             IN  [store |-> [s EXCEPT ![i] = doc],
                  upserted |-> 0,
                  modified |-> IF doc = s[i] THEN 0 ELSE 1]

\* updateOne({...filter, 'presentaciones.presentacion': p},
\*           {$inc: {'presentaciones.$.stock': by}}), no upsert.
IncStock(s, filter, p, by) ==
    LET i == FindOnePres(s, filter, p)
    IN  IF i = 0
        THEN [store |-> s, upserted |-> 0, modified |-> 0]
        ELSE LET j == PresIndex(s[i], p)
                 el == s[i].presentaciones[j]
                 el2 == [stock |-> OrZero(el, "stock") + by] @@ el
                 doc == [presentaciones |->
                            [s[i].presentaciones EXCEPT ![j] = el2]] @@ s[i]
             IN  [store |-> [s EXCEPT ![i] = doc],
                  upserted |-> 0,
                  modified |-> IF by = 0 THEN 0 ELSE 1]

ApplyOp(r, s, op) ==
    IF op.kind = "upsert"
    THEN UpsertOne(r, s, op.filter, op.set)
    ELSE IncStock(s, op.filter, op.presentacion, op.by)

\* Model.bulkWrite(ops): the operations in order, the counts summed.  An
\* empty list of operations yields the zero result.
\* acc is the result so far: the store and the two counts.
Accumulate(acc, one) ==
    [store |-> one.store,
     upserted |-> acc.upserted + one.upserted,
     modified |-> acc.modified + one.modified]

RECURSIVE BulkWriteFrom(_, _, _, _)
BulkWriteFrom(r, acc, ops, i) ==
    IF i > Len(ops) THEN acc
    ELSE BulkWriteFrom(r, Accumulate(acc, ApplyOp(r, acc.store, ops[i])),
                       ops, i + 1)

BulkWrite(r, s, ops) ==
    BulkWriteFrom(r, [store |-> s, upserted |-> 0, modified |-> 0], ops, 1)

(***************************************************************************)
(* POST /products.  The body is one payload or a list of payloads.         *)
(***************************************************************************)
\* Array.isArray(req.body) ? req.body : [req.body]
Products(body) == IF body.array THEN body.list ELSE <<body.obj>>

\* The required-field test of the revision: codigo and volumen in the
\* flat-stock revision, codigo and presentaciones in the others.
MissingRequired(r, p) ==
    IF r = "flat"
    THEN Falsy(p, "codigo") \/ Falsy(p, "volumen")
    ELSE Falsy(p, "codigo") \/ ~Has(p, "presentaciones")

ErrorRecord(r, p) ==
    [status |-> "error",
     message |-> IF r = "flat"
                 THEN "Missing required fields (codigo and volumen are required)"
                 ELSE "Missing required fields",
     product |-> p]

\* One error record per entry that fails the test, in the order of the body.
ValidationErrors(r, products) ==
    LET bad == SelectSeq(products, LAMBDA p : MissingRequired(r, p))
    IN  [i \in 1..Len(bad) |-> ErrorRecord(r, bad[i])]

\* The flat-stock revision's operation for one entry: upsert on
\* (codigo, volumen), every field of the destructuring written with $set,
\* stock among them.
FlatOp(p) ==
    [kind |-> "upsert",
     filter |-> [codigo |-> p.codigo, volumen |-> p.volumen],
     set |-> [volumen |-> p.volumen] @@ SetDoc("flat", p)]

\* The nested revisions' operations for one entry: the upsert on
\* (codigo, location), then one $inc per presentation of the payload.
StockUpdates(p, loc) ==
    [j \in 1..Len(p.presentaciones) |->
        [kind |-> "inc",
         filter |-> [codigo |-> p.codigo, location |-> loc],
         presentacion |-> p.presentaciones[j].presentacion,
         by |-> OrZero(p.presentaciones[j], "stock")]]

NestedOps(r, p) ==
    LET set == SetDoc(r, p)
    IN  <<[kind |-> "upsert",
           filter |-> [codigo |-> p.codigo, location |-> set.location],
           set |-> set]>>
        \o StockUpdates(p, set.location)

\* The mixed revision's operation: the upsert alone; presentacion is
\* written when the payload gives it.
MixedOps(p) ==
    LET set == SetDoc("mixed", p) @@ Restrict(p, {"presentacion"})
    IN  <<[kind |-> "upsert",
           filter |-> [codigo |-> p.codigo, location |-> set.location],
           set |-> set]>>

RECURSIVE SkipInvalidOps(_, _, _)
SkipInvalidOps(r, products, i) ==
    IF i > Len(products) THEN <<>>
    ELSE (IF MissingRequired(r, products[i]) THEN <<>>
          ELSE IF r = "mixed" THEN MixedOps(products[i])
          ELSE NestedOps(r, products[i]))
         \o SkipInvalidOps(r, products, i + 1)

SuccessRecord(w) ==
    [status |-> "success",
     insertedCount |-> w.upserted,
     modifiedCount |-> w.modified]

\* server.js 512-603: validate every entry first and answer 400 when any
\* fails; otherwise one bulk write of all the upserts.
FlatOps(products) == [i \in 1..Len(products) |-> FlatOp(products[i])]

Written(w) ==
    [store |-> w.store, res |-> [status |-> 200, body |-> SuccessRecord(w)]]

\* Variant of PostProductsFlat: the validation errors are answered 200.
PostProductsFlatLenient(s, body) ==
    IF ValidationErrors("flat", Products(body)) # <<>>
    THEN [store |-> s,
          res |-> [status |-> 200,
                   body |-> ValidationErrors("flat", Products(body))]]
    ELSE Written(BulkWrite("flat", s, FlatOps(Products(body))))

\* Variant of PostProductsFlat: the valid entries are written before the
\* 400 is answered.
PostProductsFlatPartial(s, body) ==
    IF ValidationErrors("flat", Products(body)) # <<>>
    THEN [store |-> BulkWrite("flat", s,
                        FlatOps(SelectSeq(Products(body),
                            LAMBDA p : ~MissingRequired("flat", p)))).store,
          res |-> [status |-> 400,
                   body |-> ValidationErrors("flat", Products(body))]]
    ELSE Written(BulkWrite("flat", s, FlatOps(Products(body))))

PostProductsFlat(s, body) ==
    IF ValidationErrors("flat", Products(body)) # <<>>
    THEN [store |-> s,
          res |-> [status |-> 400,
                   body |-> ValidationErrors("flat", Products(body))]]
    ELSE Written(BulkWrite("flat", s, FlatOps(Products(body))))

\* server.js 66-161, 1032-1102, part_000 68-160: an error record for each
\* invalid entry, the operations of the valid ones in one bulk write, and
\* 200 with the list of results.
Results(errors, w) ==
    [store |-> w.store,
     res |-> [status |-> 200, body |-> errors \o <<SuccessRecord(w)>>]]

\* Variant of PostProductsSkipInvalid: nothing is written when an entry is
\* invalid.
PostProductsSkipAll(r, s, body) ==
    IF ValidationErrors(r, Products(body)) = <<>>
       /\ Len(SkipInvalidOps(r, Products(body), 1)) > 0
    THEN Results(ValidationErrors(r, Products(body)),
                 BulkWrite(r, s, SkipInvalidOps(r, Products(body), 1)))
    ELSE [store |-> s,
          res |-> [status |-> 200,
                   body |-> ValidationErrors(r, Products(body))]]

PostProductsSkipInvalid(r, s, body) ==
    IF Len(SkipInvalidOps(r, Products(body), 1)) > 0
    THEN Results(ValidationErrors(r, Products(body)),
                 BulkWrite(r, s, SkipInvalidOps(r, Products(body), 1)))
    ELSE [store |-> s,
          res |-> [status |-> 200,
                   body |-> ValidationErrors(r, Products(body))]]

\* Entries that are no objects with a list of presentaciones.  A payload is
\* a field map, so a JSON value that is no object is written as a map with
\* the one field json, which no object of the model carries: reading a
\* property of a number yields undefined, reading one of null throws.  A
\* presentaciones value that is no array (the string '50ml') is written as
\* the list NotAList, which no request uses as a list.
JsonNull == [json |-> "null"]
JsonNumber == [json |-> "number"]
NotAList == <<[presentacion |-> "typeof string"]>>

TypeError == [message |-> "TypeError"]

\* The loop over the entries throws: !productData.codigo on null, or
\* presentaciones.map on a value that is no array, which only the handlers
\* of the nested-presentations revisions call.
EntryThrows(r, p) ==
    \/ p = JsonNull
    \/ /\ r \in NestedRevs
       /\ ~MissingRequired(r, p)
       /\ p.presentaciones = NotAList

LoopThrows(r, products) ==
    \E i \in 1..Len(products) : EntryThrows(r, products[i])

\* The catch of the other revisions (server.js 157-160, 1098-1101).
CatchSkipInvalid(s, error) ==
    [store |-> s,
     res |-> [status |-> 500,
              body |-> [error |-> "Internal server error",
                        details |-> error.message]]]

\* The loop runs before the bulk write: when it throws, the catch answers
\* and nothing has been written.
PostProducts(r, s, body) ==
    IF r = "flat" THEN PostProductsFlat(s, body)
    ELSE IF LoopThrows(r, Products(body)) THEN CatchSkipInvalid(s, TypeError)
    ELSE PostProductsSkipInvalid(r, s, body)

(***************************************************************************)
(* The read and delete handlers.                                           *)
(***************************************************************************)
\* GET /products: Product.find({}).
GetProducts(s) ==
    [store |-> s, res |-> [status |-> 200, body |-> s]]

\* GET /products/:codigo: Product.findOne({codigo}).
GetProductsCodigo(s, codigo) ==
    LET i == FindOne(s, [codigo |-> codigo])
    IN  IF i # 0
        THEN [store |-> s, res |-> [status |-> 200, body |-> s[i]]]
        ELSE [store |-> s,
              res |-> [status |-> 404, body |-> [error |-> "Product not found"]]]

\* Variant of DeleteProductsCodigo: 200 whether or not a record matched.
DeleteProductsCodigoAlways200(s, codigo) ==
    [store |-> IF FindOne(s, [codigo |-> codigo]) # 0
               THEN RemoveAt(s, FindOne(s, [codigo |-> codigo])) ELSE s,
     res |-> [status |-> 200,
              body |-> [message |-> "Product deleted successfully"]]]

\* DELETE /products/:codigo: Product.findOneAndDelete({codigo}).
DeleteProductsCodigo(s, codigo) ==
    LET i == FindOne(s, [codigo |-> codigo])
    IN  IF i # 0
        THEN [store |-> RemoveAt(s, i),
              res |-> [status |-> 200,
                       body |-> [message |-> "Product deleted successfully"]]]
        ELSE [store |-> s,
              res |-> [status |-> 404, body |-> [error |-> "Product not found"]]]

\* DELETE /products/all: Product.deleteMany({}).
DeleteProductsAll(s) ==
    IF Len(s) > 0
    THEN [store |-> <<>>,
          res |-> [status |-> 200, body |-> [deleted |-> Len(s)]]]
    ELSE [store |-> s,
          res |-> [status |-> 404,
                   body |-> [error |-> "No products found to delete"]]]

(***************************************************************************)
(* Identifiers.  The store gives every inserted document an _id that it    *)
(* never hands out again; an ObjectId is written as the decimal of its     *)
(* number, and "0" is a well-formed ObjectId no document ever gets.        *)
(***************************************************************************)
MaxIds == 3

ObjectIds == {ToString(n) : n \in 0..MaxIds}

\* mongoose.Types.ObjectId.isValid(id)
ObjectIdIsValid(id) == id \in ObjectIds

\* Product.findById(id)
FindById(s, id) == FindOne(s, [_id |-> id])

\* The documents of s that were inserted by the request being answered get
\* the next identifiers, in insertion order.
RECURSIVE AssignIds(_, _, _)
AssignIds(s, n, i) ==
    IF i > Len(s) THEN <<>>
    ELSE IF Has(s[i], "_id") THEN <<s[i]>> \o AssignIds(s, n, i + 1)
    ELSE <<[_id |-> ToString(n)] @@ s[i]>> \o AssignIds(s, n + 1, i + 1)

Inserted(s) == Cardinality({i \in 1..Len(s) : ~Has(s[i], "_id")})

(***************************************************************************)
(* The update handlers.                                                    *)
(***************************************************************************)
\* The paths of productSchema; mongoose drops every other field of an update
\* (strict mode).
SchemaPaths(r) ==
    (DOMAIN Defaults(r)) \cup {"codigo"}
    \cup (CASE r = "flat" -> {"volumen"}
            [] r = "mixed" -> {"presentacion", "presentaciones"}
            [] OTHER -> {"presentaciones"})

\* Variant of UniqueIndexHolds: the collection has no unique index.
NoUniqueIndex(r, s) == TRUE

\* Product.collection.createIndex({codigo: 1, volumen: 1}, {unique: true}):
\* the store refuses a write that leaves two documents with the same pair.
\* The other revisions create no index.
UniqueIndexHolds(r, s) ==
    r = "flat"
    => \A i, j \in 1..Len(s) :
          (s[i].codigo = s[j].codigo /\ s[i].volumen = s[j].volumen) => i = j

NotFound(s) ==
    [store |-> s, res |-> [status |-> 404, body |-> [error |-> "Product not found"]]]

InternalError(s) ==
    [store |-> s,
     res |-> [status |-> 500, body |-> [error |-> "Internal server error"]]]

InvalidId(s) ==
    [store |-> s,
     res |-> [status |-> 400, body |-> [error |-> "Invalid product ID format"]]]

\* Model.findOneAndUpdate(filter, update, {new: true}) on the document at
\* position i > 0: mongoose wraps an update without operators in $set, so
\* the fields of the update overwrite and every other field stays; a
\* duplicate key makes the store throw, and the catch block answers 500.
UpdateAt(r, s, i, update) ==
    IF UniqueIndexHolds(r, [s EXCEPT ![i] = update @@ s[i]])
    THEN [store |-> [s EXCEPT ![i] = update @@ s[i]],
          res |-> [status |-> 200, body |-> update @@ s[i]]]
    ELSE InternalError(s)

\* PUT /products/:codigo: Product.findOneAndUpdate({codigo}, req.body,
\* {new: true}).
PutProductsCodigo(r, s, codigo, body) ==
    IF FindOne(s, [codigo |-> codigo]) = 0 THEN NotFound(s)
    ELSE UpdateAt(r, s, FindOne(s, [codigo |-> codigo]),
                  Restrict(body, SchemaPaths(r)))

\* PUT /products/:codigo/:talla: Product.findOne({codigo, 'tallas.talla':
\* talla}).  The schema has no tallas: with strictQuery the filter loses the
\* path and a document with that codigo is found, whose product.tallas is
\* undefined, so findIndex throws and the catch block answers 500; without
\* strictQuery no document matches.  Which of the two depends on the
\* mongoose release the process is built with.
PutProductsCodigoTalla(s, codigo, talla, strictQuery) ==
    IF strictQuery /\ FindOne(s, [codigo |-> codigo]) # 0
    THEN InternalError(s)
    ELSE NotFound(s)

\* Variant of the location route without the check of req.body.location.
PatchProductsLocationUnchecked(r, s, codigo, body) ==
    IF FindOne(s, [codigo |-> codigo]) = 0 THEN NotFound(s)
    ELSE UpdateAt(r, s, FindOne(s, [codigo |-> codigo]), Restrict(body, {"location"}))

\* PATCH /products/location/:codigo.
PatchProductsLocation(r, s, codigo, body) ==
    IF Falsy(body, "location")
    THEN [store |-> s,
          res |-> [status |-> 400, body |-> [error |-> "Location is required"]]]
    ELSE IF FindOne(s, [codigo |-> codigo]) = 0 THEN NotFound(s)
    ELSE UpdateAt(r, s, FindOne(s, [codigo |-> codigo]),
                  [location |-> body.location])

\* GET /products/id/:id of the nested and mixed revisions: findById with no
\* check of the id, so a malformed id is a CastError and the answer 500.
GetProductsId(s, id) ==
    IF ~ObjectIdIsValid(id) THEN InternalError(s)
    ELSE IF FindById(s, id) = 0 THEN NotFound(s)
    ELSE [store |-> s, res |-> [status |-> 200, body |-> s[FindById(s, id)]]]

\* updateData of PUT /products/id/:id (flat revision): the body without _id
\* and __v, a posted stock added to the stored one.
UpdateData(s, id, body) ==
    (IF Has(body, "stock") /\ FindById(s, id) # 0
     THEN [stock |-> s[FindById(s, id)].stock + body.stock]
     ELSE <<>>)
    @@ Restrict(body, (DOMAIN body) \ {"_id", "__v"})

\* PUT /products/id/:id of the flat revision.
PutProductsId(s, id, body) ==
    IF ~ObjectIdIsValid(id) THEN InvalidId(s)
    ELSE IF FindById(s, id) = 0 THEN NotFound(s)
    ELSE UpdateAt("flat", s, FindById(s, id),
                  Restrict(UpdateData(s, id, body), SchemaPaths("flat")))

\* The presentaciones merge of PUT /products/id/:id of the mixed revision
\* (server.js 1320-1338): for each element of the body in turn, the stored
\* element of that name takes newPres.stock || existingPres.stock, and a
\* name the record does not hold is pushed with newPres.stock || 0.
RECURSIVE MergePresentaciones(_, _, _)
MergePresentaciones(pres, news, k) ==
    IF k > Len(news) THEN pres
    ELSE LET j == PresIndex([presentaciones |-> pres], news[k].presentacion)
             stock == IF OrZero(news[k], "stock") # 0
                      THEN [stock |-> news[k].stock]
                      ELSE Restrict(pres[j], {"stock"})
         IN  MergePresentaciones(
                IF j # 0 THEN [pres EXCEPT ![j] = stock @@ pres[j]]
                ELSE Append(pres, [presentacion |-> news[k].presentacion,
                                   stock |-> OrZero(news[k], "stock")]),
                news, k + 1)

\* The enum of presentacion in the mixed revision's schema.
PresentacionEnumMixed == {"50ml", "75ml", "100ml", "150ml", "200ml"}

\* product.save() validates the enums of the schema.
ValidationFails(doc) ==
    \/ Has(doc, "genero") /\ doc.genero \notin GeneroEnum
    \/ \E j \in 1..Len(doc.presentaciones) :
          doc.presentaciones[j].presentacion \notin PresentacionEnumMixed

ValidationFailed(s) ==
    [store |-> s, res |-> [status |-> 400, body |-> [error |-> "Validation failed"]]]

\* The document PUT /products/id/:id of the mixed revision saves: the merged
\* presentaciones and every other field of the body that is a schema path.
MergedProduct(doc, body) ==
    (IF Has(body, "presentaciones")
     THEN [presentaciones |->
              MergePresentaciones(doc.presentaciones, body.presentaciones, 1)]
     ELSE <<>>)
    @@ Restrict(body, SchemaPaths("mixed") \ {"presentaciones"})
    @@ doc

\* PUT /products/id/:id of the mixed revision (server.js 1301-1366).  The
\* route is registered after PUT /products/:codigo/:talla, which matches
\* every path of this route, so Dispatch never hands a request to it.
PutProductsIdMixed(s, id, body) ==
    IF ~ObjectIdIsValid(id) THEN InvalidId(s)
    ELSE IF FindById(s, id) = 0 THEN NotFound(s)
    ELSE IF ValidationFails(MergedProduct(s[FindById(s, id)], body))
    THEN ValidationFailed(s)
    ELSE [store |-> [s EXCEPT ![FindById(s, id)] =
                        MergedProduct(s[FindById(s, id)], body)],
          res |-> [status |-> 200,
                   body |-> MergedProduct(s[FindById(s, id)], body)]]

\* DELETE /products/id/:id of the flat revision.
DeleteProductsId(s, id) ==
    IF ~ObjectIdIsValid(id) THEN InvalidId(s)
    ELSE IF FindById(s, id) = 0 THEN NotFound(s)
    ELSE [store |-> RemoveAt(s, FindById(s, id)),
          res |-> [status |-> 200,
                   body |-> [message |-> "Product deleted successfully"]]]

(***************************************************************************)
(* The store rejects the bulk write of POST /products.  Model.bulkWrite is *)
(* ordered: the operations before the rejected one are applied, the write  *)
(* stops there, and the promise rejects with the driver's error, which the *)
(* handler's catch turns into the response.                                *)
(***************************************************************************)
\* The errors the driver raises: a duplicate key on the unique index (code
\* 11000) and any other write error.
DuplicateKeyError == [code |-> 11000, message |-> "E11000 duplicate key error"]
WriteError == [message |-> "write failed"]

\* Only the flat-stock revision has a unique index to collide on.
StoreErrors(r) ==
    IF r = "flat" THEN {DuplicateKeyError, WriteError} ELSE {WriteError}

\* The operations of the bulk write the handler issues for a body; none
\* when it answers before the write.
BulkOps(r, body) ==
    IF r # "flat"
    THEN IF LoopThrows(r, Products(body)) THEN <<>>
         ELSE SkipInvalidOps(r, Products(body), 1)
    ELSE IF ValidationErrors("flat", Products(body)) # <<>> THEN <<>>
    ELSE FlatOps(Products(body))

\* Variant of BulkWriteRejected: the operations before k are rolled back.
BulkWriteRolledBack(r, s, ops, k) == s

\* The store after an ordered bulk write whose k-th operation is rejected.
BulkWriteRejected(r, s, ops, k) == BulkWrite(r, s, SubSeq(ops, 1, k - 1)).store

\* Variant of CatchFlat: every error is answered 500.
CatchInternalError(s, error) ==
    [store |-> s,
     res |-> [status |-> 500,
              body |-> [error |-> "Internal server error",
                        details |-> error.message]]]

\* The catch of the flat-stock revision (server.js 590-602).
CatchFlat(s, error) ==
    IF Has(error, "code") /\ error.code = 11000
    THEN [store |-> s,
          res |-> [status |-> 400,
                   body |-> [error |-> "Duplicate product",
                             details |-> "A product with this codigo and volumen combination already exists"]]]
    ELSE [store |-> s,
          res |-> [status |-> 500,
                   body |-> [error |-> "Internal server error",
                             details |-> error.message]]]

\* POST /products when the store rejects the k-th operation with error.
PostProductsRejected(r, s, body, k, error) ==
    IF r = "flat"
    THEN CatchFlat(BulkWriteRejected(r, s, BulkOps(r, body), k), error)
    ELSE CatchSkipInvalid(BulkWriteRejected(r, s, BulkOps(r, body), k), error)

(***************************************************************************)
(* Bearer tokens.  A token is the key that signed it and its expiry        *)
(* (NoExp when the token carries none); jwt.verify accepts a token signed  *)
(* with the process's secret whose expiry is still ahead.                  *)
(***************************************************************************)
JWT_SECRET == "JWT_SECRET"
NoExp == -1
TokenLifetime == 1

Verifies(auth, t) ==
    /\ auth.key = JWT_SECRET
    /\ (auth.exp = NoExp \/ t < auth.exp)

\* The Authorization header: none, a scheme with nothing after the blank,
\* or 'Bearer <token>'.
NoAuth == [header |-> "none", key |-> "", exp |-> NoExp]
SchemeOnly == [header |-> "schemeOnly", key |-> "", exp |-> NoExp]
Bearer(key, exp) == [header |-> "bearer", key |-> key, exp |-> exp]

\* authHeader && authHeader.split(' ')[1]
HasToken(auth) == auth.header = "bearer"

(***************************************************************************)
(* Routing.  A path is its list of segments; a layer is a route (method    *)
(* and pattern, ':name' segments matching anything) or the token gate,     *)
(* which app.use mounts for every method and path.                         *)
(***************************************************************************)
Params == {":codigo", ":talla", ":id", ":_id", ":presentationId"}

Route(method, pattern, name) ==
    [method |-> method, pattern |-> pattern, name |-> name]

Gate == [method |-> "USE", pattern |-> <<>>, name |-> "gate"]

LayerMatches(layer, q) ==
    \/ layer.method = "USE"
    \/ /\ layer.method = q.method
       /\ Len(layer.pattern) = Len(q.path)
       /\ \A i \in 1..Len(q.path) :
             layer.pattern[i] \in Params \/ layer.pattern[i] = q.path[i]

\* The routes every database-backed revision registers before the gate.
PostRoute == Route("POST", <<"products">>, "POST /products")
TallaRoute == Route("PUT", <<"products", ":codigo", ":talla">>,
                    "PUT /products/:codigo/:talla")
ListRoute == Route("GET", <<"products">>, "GET /products")
GetRoute == Route("GET", <<"products", ":codigo">>, "GET /products/:codigo")
PutRoute == Route("PUT", <<"products", ":codigo">>, "PUT /products/:codigo")
DeleteRoute == Route("DELETE", <<"products", ":codigo">>,
                     "DELETE /products/:codigo")
DeleteAllRoute == Route("DELETE", <<"products", "all">>,
                        "DELETE /products/all")
LocationRoute == Route("PATCH", <<"products", "location", ":codigo">>,
                       "PATCH /products/location/:codigo")
PutIdRoute == Route("PUT", <<"products", "id", ":id">>, "PUT /products/id/:id")
GetIdRoute == Route("GET", <<"products", "id", ":id">>, "GET /products/id/:id")

\* The layers of each revision, in registration order.
LayersPart000 ==
    <<PostRoute, TallaRoute, ListRoute, GetRoute, PutRoute, DeleteRoute,
      Route("DELETE", <<"products", ":codigo">>, "DELETE /products/:codigo (deleteOne)"),
      DeleteAllRoute, LocationRoute, Gate>>

LayersNested ==
    <<PostRoute, TallaRoute, ListRoute, GetRoute, PutRoute, DeleteRoute,
      DeleteAllRoute, LocationRoute, Gate, PutIdRoute, GetIdRoute>>

LayersFlat ==
    <<PostRoute, ListRoute, GetRoute, PutRoute, DeleteRoute,
      DeleteAllRoute, LocationRoute, Gate, PutIdRoute,
      Route("GET", <<"products", ":_id">>, "GET /products/:_id"),
      Route("PUT", <<"products", ":_id">>, "PUT /products/:_id"),
      Route("DELETE", <<"products", "id", ":id">>, "DELETE /products/id/:id"),
      Route("PATCH", <<"products", "location", ":_id">>,
            "PATCH /products/location/:_id")>>

LayersMixed ==
    <<PostRoute, TallaRoute, ListRoute, GetRoute, PutRoute, DeleteRoute,
      DeleteAllRoute, LocationRoute, Gate, PutIdRoute, GetIdRoute,
      Route("PUT", <<"products", "presentation", ":presentationId">>,
            "PUT /products/presentation/:presentationId")>>

\* The in-memory revisions: the token route, the gate, the product route.
LayersMem ==
    <<Route("POST", <<"token">>, "POST /token"), Gate,
      Route("POST", <<"products">>, "POST /products")>>

Layers(r) ==
    CASE r = "part000" -> LayersPart000
      [] r = "nested" -> LayersNested
      [] r = "flat" -> LayersFlat
      [] r = "mixed" -> LayersMixed
      [] OTHER -> LayersMem

\* req.path.startsWith(prefix), on segments.
StartsWith(path, prefix) ==
    /\ Len(path) >= Len(prefix)
    /\ SubSeq(path, 1, Len(prefix)) = prefix

\* req.path.startsWith('/products/id/'): something follows the second slash.
StartsWithProductsId(path) ==
    /\ Len(path) >= 3
    /\ StartsWith(path, <<"products", "id">>)

\* verifyToken's allow-list for requests without a token (server.js 333,
\* 740, 1272).
PublicRoute(path) ==
    \/ StartsWith(path, <<"health">>)
    \/ StartsWith(path, <<"products">>)
    \/ StartsWithProductsId(path)

\* The gate of the database-backed revisions: the app.use wrapper and
\* verifyToken.  "next" hands the request to the following layers.
VerifyToken(r, q, t) ==
    IF ~HasToken(q.auth)
    THEN IF r # "part000" /\ PublicRoute(q.path) THEN "next" ELSE "401"
    ELSE IF Verifies(q.auth, t) THEN "next" ELSE "400"

GateDb(r, q, t) ==
    IF q.path = <<"health">> \/ (r # "part000" /\ StartsWithProductsId(q.path))
    THEN "next"
    ELSE VerifyToken(r, q, t)

\* Variant of authenticateJWT: the token's expiry is not looked at.
AuthenticateJWTIgnoringExpiry(q, t) ==
    IF q.auth.header = "none" THEN "401"
    ELSE IF HasToken(q.auth) /\ q.auth.key = JWT_SECRET THEN "next"
    ELSE "403"

\* authenticateJWT of the in-memory revisions: 401 without a header, 403
\* when jwt.verify reports an error (a missing token included).
AuthenticateJWT(q, t) ==
    IF q.auth.header = "none" THEN "401"
    ELSE IF HasToken(q.auth) /\ Verifies(q.auth, t) THEN "next"
    ELSE "403"

GateOutcome(r, q, t) ==
    IF r \in MemRevs THEN AuthenticateJWT(q, t) ELSE GateDb(r, q, t)

\* Express's dispatch: the first layer from position i on that matches
\* answers; the gate answers itself or passes the request on; a request no
\* layer answers gets Express's own 404.
RECURSIVE Dispatch(_, _, _, _)
Dispatch(r, q, t, i) ==
    IF i > Len(Layers(r)) THEN "404"
    ELSE IF ~LayerMatches(Layers(r)[i], q) THEN Dispatch(r, q, t, i + 1)
    ELSE IF Layers(r)[i].name # "gate" THEN Layers(r)[i].name
    ELSE IF GateOutcome(r, q, t) = "next" THEN Dispatch(r, q, t, i + 1)
    ELSE GateOutcome(r, q, t)

Handler(r, q, t) == Dispatch(r, q, t, 1)

(***************************************************************************)
(* The in-memory revisions (app.js, part_001).                             *)
(***************************************************************************)
Null == "null"

CopiedFields ==
    {"codigo_producto", "nombre", "marca", "descripcion", "categoria",
     "genero", "notas", "proveedor", "etiquetas"}

\* [imagen_principal, imagen_secundaria, imagen_terciaria].filter(Boolean)
Imagenes(b) ==
    LET names == SelectSeq(<<"imagen_principal", "imagen_secundaria",
                             "imagen_terciaria">>,
                           LAMBDA f : ~Falsy(b, f))
    IN  [i \in 1..Len(names) |-> b[names[i]]]

\* The discount fields of a product or of a variant: x || false, x || 0,
\* x || null.
Discount(b) ==
    [tiene_descuento |->
        IF Has(b, "tiene_descuento") THEN b.tiene_descuento ELSE FALSE,
     porcentaje_descuento |-> OrZero(b, "porcentaje_descuento"),
     precio_con_descuento |->
        IF OrZero(b, "precio_con_descuento") # 0
        THEN b.precio_con_descuento ELSE Null]

MemProduct(b) ==
    Restrict(b, CopiedFields)
    @@ [imagenes |-> Imagenes(b)]
    @@ Discount(b)
    @@ [variantes |->
           [i \in 1..Len(b.variantes) |->
               Discount(b.variantes[i]) @@ b.variantes[i]]]

\* Variant of MemPostProducts: the product is put at the head of the list.
MemPostProductsUnshift(inv, b) ==
    IF Has(b, "variantes")
    THEN [inventory |-> <<MemProduct(b)>> \o inv,
          res |-> [status |-> 201, body |-> MemProduct(b)]]
    ELSE [inventory |-> inv,
          res |-> [status |-> 500, body |-> [error |-> "TypeError"]]]

\* app.post('/products') of app.js 59-87 and part_001 85-113: the product is
\* appended and sent back with 201; req.body.variantes.map throws when the
\* body has no variantes, and Express answers 500.
MemPostProducts(inv, b) ==
    IF Has(b, "variantes")
    THEN [inventory |-> Append(inv, MemProduct(b)),
          res |-> [status |-> 201, body |-> MemProduct(b)]]
    ELSE [inventory |-> inv,
          res |-> [status |-> 500, body |-> [error |-> "TypeError"]]]

\* app.post('/token'): a token signed with the secret; part_001 gives it
\* one hour.
SignToken(r, t) ==
    IF r = "part001" THEN Bearer(JWT_SECRET, t + TokenLifetime)
    ELSE Bearer(JWT_SECRET, NoExp)

(***************************************************************************)
(* The requests the model sends.                                           *)
(***************************************************************************)
Codigos == {"A", "B"}

\* The optional part of a payload: nothing, every field, or two of them.
Bare == <<>>

Full ==
    [nombre |-> "Sauvage", concentracion_alcohol |-> 80, location |-> "L1",
     precio |-> 100, precio_neto |-> 90, precio_neto_cs |-> 95,
     descripcion |-> "eau de toilette", marca |-> "Dior",
     genero |-> "Masculino", categoria |-> "perfume",
     etiquetas |-> <<"fresh">>, tiene_descuento |-> TRUE,
     porcentaje_descuento |-> 10, precio_con_descuento |-> 90, stock |-> 5,
     imagen_primaria |-> "p.png", imagen_secundaria |-> "s.png",
     imagen_alternativa |-> "a.png"]

Partial == [marca |-> "Chanel", stock |-> 3]

Optionals == {Bare, Full, Partial}

PresentacionesLists ==
    {<<>>,
     <<[presentacion |-> "50ml", stock |-> 5]>>,
     <<[presentacion |-> "50ml"], [presentacion |-> "100ml", stock |-> 3]>>}

\* Payloads that pass the revision's required-field test.
ValidPayloads(r) ==
    IF r = "flat"
    THEN {[codigo |-> c, volumen |-> v] @@ o :
            c \in Codigos, v \in PresentacionEnum, o \in Optionals}
    ELSE {[codigo |-> c, presentaciones |-> ps] @@ o :
            c \in Codigos, ps \in PresentacionesLists, o \in Optionals}

\* Payloads that fail it: no codigo, an empty codigo, no second field.
InvalidPayloads(r) ==
    IF r = "flat"
    THEN {[volumen |-> "50ml"], [codigo |-> "", volumen |-> "50ml"],
          [codigo |-> "A"] @@ Full}
    ELSE {[presentaciones |-> <<>>], [codigo |-> "", presentaciones |-> <<>>],
          [codigo |-> "A"] @@ Full}

\* The entries lists are made of.
BatchPayloads(r) ==
    IF r = "flat"
    THEN {[codigo |-> "A", volumen |-> "50ml"] @@ Full,
          [codigo |-> "A", volumen |-> "50ml"] @@ Partial,
          [codigo |-> "B", volumen |-> "100ml"],
          [codigo |-> "", volumen |-> "50ml"]}
    ELSE {[codigo |-> "A", presentaciones |-> <<>>] @@ Full,
          [codigo |-> "A", presentaciones |-> <<>>] @@ Partial,
          [codigo |-> "B",
           presentaciones |-> <<[presentacion |-> "50ml", stock |-> 5]>>],
          [codigo |-> "A"] @@ Full}

SeqsUpTo(S, n) == UNION {[1..k -> S] : k \in 0..n}

Bodies(r) ==
    {[array |-> FALSE, obj |-> p] :
        p \in ValidPayloads(r) \cup InvalidPayloads(r)}
    \cup {[array |-> TRUE, list |-> l] : l \in SeqsUpTo(BatchPayloads(r), MaxBatch)}

\* express.json() leaves {} when the request has no body.
NoBody == [array |-> FALSE, obj |-> <<>>]

DbAuths ==
    {NoAuth, Bearer(JWT_SECRET, NoExp), Bearer("forged", NoExp),
     Bearer(JWT_SECRET, 0)}

Request(method, path, auth, body) ==
    [method |-> method, path |-> path, auth |-> auth, body |-> body]

DbRequests(r) ==
    {Request("POST", <<"products">>, a, b) : a \in DbAuths, b \in Bodies(r)}
    \cup {Request(m, path, a, NoBody) :
            m \in {"GET", "DELETE"},
            path \in {<<"products", c>> : c \in Codigos \cup {"all"}},
            a \in DbAuths}
    \cup {Request("GET", path, a, NoBody) :
            path \in {<<"products">>, <<"health">>, <<"orders">>},
            a \in DbAuths}

MemBodies ==
    {<<>>,
     [codigo_producto |-> "P1"],
     [codigo_producto |-> "P1", variantes |-> <<>>],
     [codigo_producto |-> "P2", marca |-> "Dior",
      imagen_principal |-> "p.png", imagen_terciaria |-> "",
      precio_con_descuento |-> 90,
      variantes |-> <<[volumen |-> "50ml", precio |-> 100],
                      [volumen |-> "100ml", precio |-> 150,
                       tiene_descuento |-> TRUE,
                       porcentaje_descuento |-> 10,
                       precio_con_descuento |-> 135]>>]}

MemAuths(tokens) ==
    {NoAuth, SchemeOnly, Bearer("forged", NoExp)} \cup tokens

MemRequests(tokens) ==
    {Request("POST", <<"token">>, a, NoBody.obj) : a \in MemAuths(tokens)}
    \cup {Request("POST", <<"products">>, a, b) :
            a \in MemAuths(tokens), b \in MemBodies}
    \cup {Request("GET", <<"products">>, a, NoBody.obj) : a \in MemAuths(tokens)}

Requests ==
    IF rev \in MemRevs THEN MemRequests(issued) ELSE DbRequests(rev)

NoRequest == Request("NONE", <<>>, NoAuth, NoBody)
NoResponse == [status |-> 0, body |-> <<>>]

\* The bulk write of the exchange, if any, was not rejected.
NoRejection == [k |-> 0, error |-> <<>>]

\* A handler between its awaits: where it resumes (pc), its request, what it
\* keeps in its local variables (found: the upsert's query phase matched,
\* or findById gave a currentProduct; stock: updateData.stock) and the
\* response it has prepared.
Idle ==
    [pc |-> "idle", q |-> NoRequest, found |-> FALSE, stock |-> 0,
     res |-> NoResponse]

NoHandlers == [h \in 1..MaxHandlers |-> Idle]

(***************************************************************************)
(* What the process answers to a request and what it leaves in the store.  *)
(***************************************************************************)
GateStatus(h) ==
    CASE h = "401" -> 401
      [] h = "400" -> 400
      [] h = "403" -> 403
      [] h = "404" -> 404

\* The answer of handler h (the layer Dispatch found) to request q.
Handle(h, r, s, q) ==
    CASE h = "POST /products" -> PostProducts(r, s, q.body)
      [] h = "GET /products" -> GetProducts(s)
      [] h = "GET /products/:codigo" -> GetProductsCodigo(s, q.path[2])
      [] h = "DELETE /products/:codigo" -> DeleteProductsCodigo(s, q.path[2])
      [] h = "DELETE /products/all" -> DeleteProductsAll(s)
      [] h \in {"401", "400", "404"} ->
            [store |-> s, res |-> [status |-> GateStatus(h), body |-> <<>>]]

DbRespond(r, s, q, t) == Handle(Handler(r, q, t), r, s, q)

(***************************************************************************)
(* The state machine.                                                      *)
(***************************************************************************)
Init ==
    /\ rev \in DbRevs
    /\ store = <<>>
    /\ req = NoRequest
    /\ res = NoResponse
    /\ attempt = 0
    /\ inventory = <<>>
    /\ issued = {}
    /\ now = 0
    /\ nextId = 1
    /\ rejected = NoRejection
    /\ sent = FALSE
    /\ handlers = NoHandlers
    /\ up = TRUE

InitMem ==
    /\ rev \in MemRevs
    /\ store = <<>>
    /\ req = NoRequest
    /\ res = NoResponse
    /\ attempt = 0
    /\ inventory = <<>>
    /\ issued = {}
    /\ now = 0
    /\ nextId = 1
    /\ rejected = NoRejection
    /\ sent = FALSE
    /\ handlers = NoHandlers
    /\ up = TRUE

\* A request q of the database-backed revisions is answered.
Answered(q, out) ==
    /\ Len(out.store) <= MaxDocs
    /\ store' = out.store
    /\ req' = q
    /\ res' = out.res
    /\ UNCHANGED <<rev, inventory, issued, now, nextId, up, rejected, sent,
                   handlers>>

Exchange(q) == Answered(q, DbRespond(rev, store, q, now))

PostProductsDb ==
    /\ attempt = 0
    /\ rev \in DbRevs
    /\ \E q \in Requests :
            /\ Handler(rev, q, now) = "POST /products"
            /\ Exchange(q)
            /\ attempt' = 1

GetProductsDb ==
    /\ attempt = 0
    /\ rev \in DbRevs
    /\ \E q \in Requests :
            /\ Handler(rev, q, now) = "GET /products"
            /\ Exchange(q)
            /\ attempt' = 1

GetProductsCodigoDb ==
    /\ attempt = 0
    /\ rev \in DbRevs
    /\ \E q \in Requests :
            /\ Handler(rev, q, now) = "GET /products/:codigo"
            /\ Exchange(q)
            /\ attempt' = 1

DeleteProductsCodigoDb ==
    /\ attempt = 0
    /\ rev \in DbRevs
    /\ \E q \in Requests :
            /\ Handler(rev, q, now) = "DELETE /products/:codigo"
            /\ Exchange(q)
            /\ attempt' = 1

\* The gate of the database-backed revisions answers: 401 or 400.
GateRejectsDb ==
    /\ attempt = 0
    /\ rev \in DbRevs
    /\ \E q \in Requests :
            /\ Handler(rev, q, now) \in {"401", "400"}
            /\ Exchange(q)
            /\ attempt' = 1

\* No layer answers: Express's 404.
NoRouteDb ==
    /\ attempt = 0
    /\ rev \in DbRevs
    /\ \E q \in Requests :
            /\ Handler(rev, q, now) = "404"
            /\ Exchange(q)
            /\ attempt' = 1

\* The client sends the request it has just sent a second time.
Resend ==
    /\ attempt = 1
    /\ rev \in DbRevs
    /\ Exchange(req)
    /\ attempt' = 2

\* The exchange is over: the request and response objects are gone.
Close ==
    /\ attempt > 0
    /\ req' = NoRequest
    /\ res' = NoResponse
    /\ attempt' = 0
    /\ rejected' = NoRejection
    /\ sent' = FALSE
    /\ UNCHANGED <<rev, store, inventory, issued, now, nextId, up, handlers>>

\* The in-memory revisions.
HandleMem(h, r, inv, q, t) ==
    CASE h = "POST /token" ->
            [inventory |-> inv,
             res |-> [status |-> 200, body |-> [token |-> SignToken(r, t)]]]
      [] h = "POST /products" -> MemPostProducts(inv, q.body)
      [] h \in {"401", "403", "404"} ->
            [inventory |-> inv, res |-> [status |-> GateStatus(h), body |-> <<>>]]

MemRespond(r, inv, q, t) == HandleMem(Handler(r, q, t), r, inv, q, t)

AnsweredMem(q, out) ==
    /\ Len(out.inventory) <= MaxInventory
    /\ inventory' = out.inventory
    /\ req' = q
    /\ res' = out.res
    /\ attempt' = 1
    /\ UNCHANGED <<rev, store, now, nextId, up, rejected, sent, handlers>>

ExchangeMem(q) == AnsweredMem(q, MemRespond(rev, inventory, q, now))

PostToken ==
    /\ attempt = 0
    /\ rev \in MemRevs
    /\ \E q \in Requests :
            /\ Handler(rev, q, now) = "POST /token"
            /\ ExchangeMem(q)
            /\ issued' = issued \cup {SignToken(rev, now)}

PostProductsMem ==
    /\ attempt = 0
    /\ rev \in MemRevs
    /\ \E q \in Requests :
            /\ Handler(rev, q, now) = "POST /products"
            /\ ExchangeMem(q)
            /\ UNCHANGED issued

\* authenticateJWT answers: 401 or 403.
GateRejectsMem ==
    /\ attempt = 0
    /\ rev \in MemRevs
    /\ \E q \in Requests :
            /\ Handler(rev, q, now) \in {"401", "403"}
            /\ ExchangeMem(q)
            /\ UNCHANGED issued

NoRouteMem ==
    /\ attempt = 0
    /\ rev \in MemRevs
    /\ \E q \in Requests :
            /\ Handler(rev, q, now) = "404"
            /\ ExchangeMem(q)
            /\ UNCHANGED issued

\* Time passes between two requests.
Tick ==
    /\ attempt = 0
    /\ rev \in MemRevs
    /\ now < MaxClock
    /\ now' = now + 1
    /\ UNCHANGED
        <<rev, store, req, res, attempt, inventory, issued, nextId, up, rejected,
          sent, handlers>>

Next ==
    \/ PostProductsDb
    \/ GetProductsDb
    \/ GetProductsCodigoDb
    \/ DeleteProductsCodigoDb
    \/ GateRejectsDb
    \/ NoRouteDb
    \/ Resend
    \/ Close

NextMem ==
    \/ PostToken
    \/ PostProductsMem
    \/ GateRejectsMem
    \/ NoRouteMem
    \/ Tick
    \/ Close

Spec == Init /\ [][Next]_vars

SpecMem == InitMem /\ [][NextMem]_vars

(***************************************************************************)
(* The update and by-id routes.  The documents carry their _id here, and   *)
(* the requests are chosen for the routes that read or rewrite stored      *)
(* records: few payloads, every route of the revision.                     *)
(***************************************************************************)
MaxStock == 6

CrudPayloads(r) ==
    IF r = "flat"
    THEN {[codigo |-> "A", volumen |-> "50ml", stock |-> 3],
          [codigo |-> "A", volumen |-> "100ml", genero |-> "Otro"],
          [codigo |-> "id", volumen |-> "50ml"]}
    ELSE {[codigo |-> "A",
           presentaciones |-> <<[presentacion |-> "50ml", stock |-> 5]>>],
          [codigo |-> "A", location |-> "L1", genero |-> "Otro",
           presentaciones |-> <<[presentacion |-> "100ml"]>>],
          [codigo |-> "id", presentaciones |-> <<>>]}

\* Lists with an entry the loop cannot process, next to a valid one.
UnprocessableLists ==
    {<<JsonNull, [codigo |-> "A", presentaciones |-> <<>>]>>,
     <<[codigo |-> "A", presentaciones |-> <<>>], JsonNumber>>,
     <<[codigo |-> "A", presentaciones |-> <<>>],
       [codigo |-> "id", presentaciones |-> NotAList]>>}

CrudBodies(r) ==
    {[array |-> FALSE, obj |-> p] : p \in CrudPayloads(r)}
    \cup {[array |-> TRUE, list |-> l] :
            l \in UNION {[1..k -> CrudPayloads(r)] : k \in 2..MaxBatch}}
    \cup {[array |-> TRUE, list |-> l] :
            l \in IF r = "flat" THEN {} ELSE UnprocessableLists}

\* Bodies of PUT: nothing, a descriptive field, a field of the key or of the
\* stock.
PutBodies(r) ==
    {[array |-> FALSE, obj |-> b] :
        b \in {<<>>, [location |-> "L2"],
               IF r = "flat" THEN [volumen |-> "100ml"]
               ELSE [presentaciones |->
                        <<[presentacion |-> "50ml", stock |-> 1],
                          [presentacion |-> "100ml", stock |-> 2]>>]}}

PatchBodies ==
    {[array |-> FALSE, obj |-> b] :
        b \in {<<>>, [location |-> ""], [location |-> "L2"]}}

\* The :id values sent: no ObjectId, an ObjectId that was never issued, the
\* first ObjectId issued.
IdParams == {"bad", ToString(0), ToString(1)}

\* The short paths of the flat-stock revision with the first ObjectId
\* issued in the place of the parameter.
ShortPathRequests ==
    {Request("GET", <<"products", ToString(1)>>, NoAuth, NoBody),
     Request("PUT", <<"products", ToString(1)>>, NoAuth,
             [array |-> FALSE, obj |-> [location |-> "L2"]]),
     Request("PATCH", <<"products", "location", ToString(1)>>, NoAuth,
             [array |-> FALSE, obj |-> [location |-> "L2"]])}

CrudRequests(r) ==
    {Request("POST", <<"products">>, NoAuth, b) : b \in CrudBodies(r)}
    \cup {Request("PUT", <<"products", c>>, NoAuth, b) :
            c \in {"A", "id", "B"}, b \in PutBodies(r)}
    \cup {Request("PATCH", <<"products", "location", c>>, NoAuth, b) :
            c \in {"A", "B"}, b \in PatchBodies}
    \cup {Request("GET", <<"products", c>>, NoAuth, NoBody) : c \in {"A", "B"}}
    \cup {Request("DELETE", <<"products", "A">>, NoAuth, NoBody)}
    \cup {Request(m, <<"products", "id", x>>, NoAuth, NoBody) :
            m \in {"GET", "DELETE"}, x \in IdParams}
    \cup {Request("PUT", <<"products", "id", x>>, NoAuth, b) :
            x \in IdParams, b \in PutBodies(r)}
    \cup (IF r = "flat" THEN ShortPathRequests ELSE {})

\* The answer of handler h to request q; strictQuery is the build's setting.
HandleCrud(h, r, s, q, strictQuery) ==
    CASE h = "PUT /products/:codigo" ->
            PutProductsCodigo(r, s, q.path[2], q.body.obj)
      [] h = "PUT /products/:codigo/:talla" ->
            PutProductsCodigoTalla(s, q.path[2], q.path[3], strictQuery)
      [] h = "PATCH /products/location/:codigo" ->
            PatchProductsLocation(r, s, q.path[3], q.body.obj)
      [] h = "GET /products/id/:id" /\ r \in {"nested", "mixed"} ->
            GetProductsId(s, q.path[3])
      [] h = "PUT /products/id/:id" /\ r = "flat" ->
            PutProductsId(s, q.path[3], q.body.obj)
      [] h = "DELETE /products/id/:id" /\ r = "flat" ->
            DeleteProductsId(s, q.path[3])
      [] h \in {"POST /products", "GET /products/:codigo",
                "DELETE /products/:codigo", "401", "400", "404"} ->
            Handle(h, r, s, q)

CrudRespond(r, s, q, t, strictQuery) ==
    HandleCrud(Handler(r, q, t), r, s, q, strictQuery)

\* No presentation's stock is above the bound.
StockBounded(s) ==
    \A i \in 1..Len(s) :
        Has(s[i], "presentaciones")
        => \A j \in 1..Len(s[i].presentaciones) :
              OrZero(s[i].presentaciones[j], "stock") <= MaxStock

InitCrud ==
    /\ rev \in DbRevs
    /\ store = <<>>
    /\ req = NoRequest
    /\ res = NoResponse
    /\ attempt = 0
    /\ inventory = <<>>
    /\ issued = {}
    /\ now = 0
    /\ nextId = 1
    /\ rejected = NoRejection
    /\ sent = FALSE
    /\ handlers = NoHandlers
    /\ up = TRUE

\* Request q is answered; the documents it inserted get their _id.
WrittenCrud(q, out) ==
    /\ Len(out.store) <= MaxDocs
    /\ nextId + Inserted(out.store) <= MaxIds + 1
    /\ StockBounded(out.store)
    /\ store' = AssignIds(out.store, nextId, 1)
    /\ nextId' = nextId + Inserted(out.store)
    /\ req' = q
    /\ res' = out.res
    /\ attempt' = 1
    /\ UNCHANGED <<rev, inventory, issued, now, up, sent, handlers>>

AnsweredCrud(q, out) == WrittenCrud(q, out) /\ UNCHANGED rejected

\* One action for each handler the requests reach.
ExchangeCrud(q) == AnsweredCrud(q, CrudRespond(rev, store, q, now, FALSE))

PostProductsCrud ==
    /\ attempt = 0
    /\ rev \in DbRevs
    /\ \E q \in CrudRequests(rev) :
            /\ Handler(rev, q, now) = "POST /products"
            /\ ExchangeCrud(q)

GetProductsCodigoCrud ==
    /\ attempt = 0
    /\ rev \in DbRevs
    /\ \E q \in CrudRequests(rev) :
            /\ Handler(rev, q, now) = "GET /products/:codigo"
            /\ ExchangeCrud(q)

DeleteProductsCodigoCrud ==
    /\ attempt = 0
    /\ rev \in DbRevs
    /\ \E q \in CrudRequests(rev) :
            /\ Handler(rev, q, now) = "DELETE /products/:codigo"
            /\ ExchangeCrud(q)

PutProductsCodigoCrud ==
    /\ attempt = 0
    /\ rev \in DbRevs
    /\ \E q \in CrudRequests(rev) :
            /\ Handler(rev, q, now) = "PUT /products/:codigo"
            /\ ExchangeCrud(q)

PatchProductsLocationCrud ==
    /\ attempt = 0
    /\ rev \in DbRevs
    /\ \E q \in CrudRequests(rev) :
            /\ Handler(rev, q, now) = "PATCH /products/location/:codigo"
            /\ ExchangeCrud(q)

GetProductsIdCrud ==
    /\ attempt = 0
    /\ rev \in DbRevs
    /\ \E q \in CrudRequests(rev) :
            /\ Handler(rev, q, now) = "GET /products/id/:id"
            /\ ExchangeCrud(q)

PutProductsIdCrud ==
    /\ attempt = 0
    /\ rev \in DbRevs
    /\ \E q \in CrudRequests(rev) :
            /\ Handler(rev, q, now) = "PUT /products/id/:id"
            /\ ExchangeCrud(q)

DeleteProductsIdCrud ==
    /\ attempt = 0
    /\ rev \in DbRevs
    /\ \E q \in CrudRequests(rev) :
            /\ Handler(rev, q, now) = "DELETE /products/id/:id"
            /\ ExchangeCrud(q)

GateRejectsCrud ==
    /\ attempt = 0
    /\ rev \in DbRevs
    /\ \E q \in CrudRequests(rev) :
            /\ Handler(rev, q, now) = "401"
            /\ ExchangeCrud(q)

NoRouteCrud ==
    /\ attempt = 0
    /\ rev \in DbRevs
    /\ \E q \in CrudRequests(rev) :
            /\ Handler(rev, q, now) = "404"
            /\ ExchangeCrud(q)

PutProductsCodigoTallaCrud ==
    /\ attempt = 0
    /\ rev \in DbRevs
    /\ \E q \in CrudRequests(rev), strictQuery \in BOOLEAN :
            /\ Handler(rev, q, now) = "PUT /products/:codigo/:talla"
            /\ AnsweredCrud(q, CrudRespond(rev, store, q, now, strictQuery))

\* POST /products whose bulk write the store rejects at operation k.
PostProductsRejectedCrud ==
    /\ attempt = 0
    /\ rev \in DbRevs
    /\ \E q \in CrudRequests(rev) :
            /\ Handler(rev, q, now) = "POST /products"
            /\ \E k \in 1..Len(BulkOps(rev, q.body)), error \in StoreErrors(rev) :
                    /\ rejected' = [k |-> k, error |-> error]
                    /\ WrittenCrud(q, PostProductsRejected(rev, store, q.body, k, error))

NextCrud ==
    \/ PostProductsCrud
    \/ PostProductsRejectedCrud
    \/ GetProductsCodigoCrud
    \/ DeleteProductsCodigoCrud
    \/ PutProductsCodigoCrud
    \/ PatchProductsLocationCrud
    \/ GetProductsIdCrud
    \/ PutProductsIdCrud
    \/ DeleteProductsIdCrud
    \/ PutProductsCodigoTallaCrud
    \/ GateRejectsCrud
    \/ NoRouteCrud
    \/ Close

SpecCrud == InitCrud /\ [][NextCrud]_vars

(***************************************************************************)
(* Requests in flight.  Here an exchange takes two steps: the process      *)
(* accepts the request and its handler runs the store operations it awaits *)
(* and prepares the response; later the response leaves the process.  A    *)
(* store operation may throw; what becomes of the request then depends on  *)
(* whether the handler awaits the store inside try/catch.  Node's event    *)
(* loop resumes every handler whose promise has settled and writes the     *)
(* response it prepared, which is the fairness of SpecLive.                *)
(***************************************************************************)
\* Variant of TryCatch: no handler catches.
NoTryCatch(r, h) == FALSE

\* The handler awaits the store inside try { } catch.  Every route handler
\* of server.js and part_000 does, the second DELETE /products/:codigo of
\* part_000 excepted.
TryCatch(r, h) == h # "DELETE /products/:codigo (deleteOne)"

\* The requests of this specification: single payloads, every route.
LiveRequests(r, tokens) ==
    IF r \in MemRevs THEN MemRequests(tokens)
    ELSE {q \in CrudRequests(r) : ~q.body.array}

\* Of a response this specification keeps the status line.
StatusLine(out) ==
    [out EXCEPT !.res = [status |-> out.res.status, body |-> <<>>]]

\* A request has been accepted and its response is not out.
Pending == attempt > 0 /\ ~sent

\* The handlers that go to the store: the routes, not the gate's answers
\* nor Express's 404.
UsesStore(h) == h \notin {"401", "400", "404"}

\* The number of store operations of the handler that can throw: those of
\* the bulk write for POST /products, the query for the others.
StoreOps(r, q, h) ==
    IF h = "POST /products" THEN Len(BulkOps(r, q.body)) ELSE 1

\* The errors operation k of handler h can throw.
ThrowErrors(r, h) == IF h = "POST /products" THEN StoreErrors(r) ELSE {WriteError}

\* What the catch of handler h makes of the error thrown by operation k.
Caught(r, s, q, h, k, error) ==
    IF h = "POST /products" THEN PostProductsRejected(r, s, q.body, k, error)
    ELSE InternalError(s)

InitLive ==
    /\ rev \in DbRevs \cup MemRevs
    /\ store = <<>>
    /\ req = NoRequest
    /\ res = NoResponse
    /\ attempt = 0
    /\ inventory = <<>>
    /\ issued = {}
    /\ now = 0
    /\ nextId = 1
    /\ rejected = NoRejection
    /\ sent = FALSE
    /\ handlers = NoHandlers
    /\ up = TRUE

\* The process accepts a request and the handler of a database-backed
\* revision runs up to its response.
ServeDb ==
    /\ up
    /\ attempt = 0
    /\ rev \in DbRevs
    /\ UNCHANGED rejected
    /\ \E q \in LiveRequests(rev, issued), strictQuery \in BOOLEAN :
            WrittenCrud(q, StatusLine(CrudRespond(rev, store, q, now, strictQuery)))

\* Store operation k of the handler throws.  Inside try/catch the catch
\* prepares the response; otherwise the rejection is unhandled, which ends
\* the process with the request unanswered.
ServeDbThrows ==
    /\ up
    /\ attempt = 0
    /\ rev \in DbRevs
    /\ \E q \in LiveRequests(rev, issued) :
        /\ UsesStore(Handler(rev, q, now))
        /\ \E k \in 1..StoreOps(rev, q, Handler(rev, q, now)),
              error \in ThrowErrors(rev, Handler(rev, q, now)) :
            /\ rejected' = [k |-> k, error |-> error]
            /\ IF TryCatch(rev, Handler(rev, q, now))
               THEN WrittenCrud(q, StatusLine(Caught(rev, store, q,
                                        Handler(rev, q, now), k, error)))
               ELSE /\ up' = FALSE
                    /\ req' = q
                    /\ attempt' = 1
                    /\ UNCHANGED <<rev, store, res, inventory, issued, now,
                                   nextId, sent, handlers>>

\* The process accepts a request and the handler of an in-memory revision
\* runs; Express answers 500 when it throws.
ServeMem ==
    /\ up
    /\ attempt = 0
    /\ rev \in MemRevs
    /\ \E q \in LiveRequests(rev, issued) :
        /\ AnsweredMem(q, StatusLine(MemRespond(rev, inventory, q, now)))
        /\ issued' = IF Handler(rev, q, now) = "POST /token"
                     THEN issued \cup {SignToken(rev, now)}
                     ELSE issued

\* The response the handler prepared leaves the process.
Send ==
    /\ up
    /\ Pending
    /\ res # NoResponse
    /\ sent' = TRUE
    /\ UNCHANGED <<rev, store, req, res, attempt, inventory, issued, now, nextId,
                   up, rejected, handlers>>

\* The exchange is over once the response is out.
CloseLive == sent /\ Close

NextLive ==
    \/ ServeDb
    \/ ServeDbThrows
    \/ ServeMem
    \/ Send
    \/ CloseLive

SpecLive ==
    /\ InitLive
    /\ [][NextLive]_vars
    /\ WF_vars(Send)

(***************************************************************************)
(* Concurrent requests.  A handler runs until an await and resumes when    *)
(* the store has answered; between the two, other handlers run.  POST      *)
(* /products awaits its bulk write once, but the store runs an upsert in   *)
(* two phases that other writes can separate: the query for a matching     *)
(* document, then the update of the match or the insert.  Only a unique    *)
(* index makes the store refuse the second of two inserts for one key.     *)
(* PUT /products/id/:id of the flat-stock revision awaits twice: findById  *)
(* for the current stock, then findByIdAndUpdate.                          *)
(***************************************************************************)
\* The requests handled concurrently: single valid payloads, and stock
\* deltas for the first record.
ConcPosts(r) ==
    {Request("POST", <<"products">>, NoAuth, [array |-> FALSE, obj |-> p]) :
        p \in CrudPayloads(r)}

StockDeltas == {1, 2}

ConcPuts ==
    {Request("PUT", <<"products", "id", ToString(1)>>, NoAuth,
             [array |-> FALSE, obj |-> [stock |-> d]]) : d \in StockDeltas}

\* The response to a bulk write with result w.
PostResult(r, w) == IF r = "flat" THEN Written(w) ELSE Results(<<>>, w)

\* The write phase of the upsert of request q, whose query phase found no
\* document: the insert, whatever has been written since, and then the
\* rest of the bulk write.
InsertPhase(r, s, q) ==
    LET ops == BulkOps(r, q.body)
    IN  BulkWriteFrom(r, InsertOne(r, s, ops[1].filter, ops[1].set), ops, 2)

\* What the write phase leaves and what the handler answers.  On a duplicate
\* key the unique index refuses the insert: the server either runs the
\* upsert again (retry), now as an update, or reports E11000, depending on
\* its release.
ApplyPhase(r, s, q, found, retry) ==
    IF found THEN PostProducts(r, s, q.body)
    ELSE IF UniqueIndexHolds(r, InsertPhase(r, s, q).store)
    THEN PostResult(r, InsertPhase(r, s, q))
    ELSE IF retry THEN PostProducts(r, s, q.body)
    ELSE CatchFlat(s, DuplicateKeyError)

\* findByIdAndUpdate(id, updateData, {new: true}) of PUT /products/id/:id.
FindByIdAndUpdate(s, id, updateData) ==
    IF FindById(s, id) = 0 THEN NotFound(s)
    ELSE UpdateAt("flat", s, FindById(s, id), updateData)

InitConc ==
    /\ rev \in DbRevs
    /\ store = <<>>
    /\ req = NoRequest
    /\ res = NoResponse
    /\ attempt = 0
    /\ inventory = <<>>
    /\ issued = {}
    /\ now = 0
    /\ nextId = 1
    /\ rejected = NoRejection
    /\ sent = FALSE
    /\ handlers = NoHandlers
    /\ up = TRUE

\* Handler h goes from one await to the next and touches nothing else.
Suspends(h, next) ==
    /\ handlers' = [handlers EXCEPT ![h] = next]
    /\ UNCHANGED <<rev, store, req, res, attempt, inventory, issued, now, nextId,
                   up, rejected, sent>>

\* Handler h resumes from a write that left out.store and prepares out.res.
Resumes(h, out) ==
    /\ Len(out.store) <= MaxDocs
    /\ nextId + Inserted(out.store) <= MaxIds + 1
    /\ store' = AssignIds(out.store, nextId, 1)
    /\ nextId' = nextId + Inserted(out.store)
    /\ handlers' = [handlers EXCEPT ![h].pc = "done", ![h].res = out.res]
    /\ UNCHANGED <<rev, req, res, attempt, inventory, issued, now, up, rejected,
                   sent>>

\* POST /products is accepted and awaits Product.bulkWrite.
AcceptPostConc ==
    \E h \in 1..MaxHandlers, q \in ConcPosts(rev) :
        /\ handlers[h].pc = "idle"
        /\ Suspends(h, [Idle EXCEPT !.pc = "match", !.q = q])

\* The query phase of the upsert.
UpsertMatchConc ==
    \E h \in 1..MaxHandlers :
        /\ handlers[h].pc = "match"
        /\ Suspends(h, [handlers[h] EXCEPT
                !.pc = "apply",
                !.found = FindOne(store, BulkOps(rev, handlers[h].q.body)[1].filter) # 0])

\* The write phase, the rest of the bulk write and the handler's response.
UpsertApplyConc ==
    \E h \in 1..MaxHandlers, retry \in BOOLEAN :
        /\ handlers[h].pc = "apply"
        /\ Resumes(h, ApplyPhase(rev, store, handlers[h].q, handlers[h].found, retry))

\* PUT /products/id/:id with a stock is accepted and awaits findById.
AcceptPutIdConc ==
    /\ rev = "flat"
    /\ \E h \in 1..MaxHandlers, q \in ConcPuts :
        /\ handlers[h].pc = "idle"
        /\ Suspends(h, [Idle EXCEPT !.pc = "read", !.q = q,
                                    !.stock = q.body.obj.stock])

\* findById answers: updateData.stock = currentProduct.stock +
\* updateData.stock; the handler awaits findByIdAndUpdate.
ReadStockConc ==
    \E h \in 1..MaxHandlers :
        /\ handlers[h].pc = "read"
        /\ Suspends(h, [handlers[h] EXCEPT
                !.pc = "write",
                !.found = FindById(store, handlers[h].q.path[3]) # 0,
                !.stock = UpdateData(store, handlers[h].q.path[3],
                                     handlers[h].q.body.obj).stock])

\* findByIdAndUpdate answers and the handler prepares its response.
WriteStockConc ==
    \E h \in 1..MaxHandlers :
        /\ handlers[h].pc = "write"
        /\ handlers[h].stock <= MaxStock
        /\ Resumes(h, FindByIdAndUpdate(store, handlers[h].q.path[3],
                                        [stock |-> handlers[h].stock]))

\* The response of handler h leaves the process.
RespondConc ==
    \E h \in 1..MaxHandlers :
        /\ handlers[h].pc = "done"
        /\ req' = handlers[h].q
        /\ res' = handlers[h].res
        /\ handlers' = [handlers EXCEPT ![h] = Idle]
        /\ UNCHANGED <<rev, store, attempt, inventory, issued, now, nextId, up,
                       rejected, sent>>

NextConc ==
    \/ AcceptPostConc
    \/ UpsertMatchConc
    \/ UpsertApplyConc
    \/ AcceptPutIdConc
    \/ ReadStockConc
    \/ WriteStockConc
    \/ RespondConc

SpecConc == InitConc /\ [][NextConc]_vars

(***************************************************************************)
(* Vocabulary of the properties.                                           *)
(***************************************************************************)
\* The step answers a request (a first sending or a resending).
Answers == attempt' > attempt

\* The step answers a POST /products.
AnswersPost == Answers /\ req'.method = "POST" /\ req'.path = <<"products">>

\* The state holds the exchange of a POST /products.
PostAnswered == attempt > 0 /\ req.method = "POST" /\ req.path = <<"products">>

InvalidEntries(r, body) ==
    SelectSeq(Products(body), LAMBDA p : MissingRequired(r, p))

ValidEntries(r, body) ==
    SelectSeq(Products(body), LAMBDA p : ~MissingRequired(r, p))

AllValid(r, body) == InvalidEntries(r, body) = <<>>

\* The entries the error records of a response body carry, in order.
ReportedEntries(results) ==
    LET errs == SelectSeq(results, LAMBDA x : x.status = "error")
    IN  [i \in 1..Len(errs) |-> errs[i].product]

SuccessRecords(results) == SelectSeq(results, LAMBDA x : x.status = "success")

\* The descriptive fields of every stored record, in store order.
Descriptive(r, s) == [i \in 1..Len(s) |-> Restrict(s[i], DescriptiveFields(r))]

\* The stock stored under (codigo, volumen); 0 when there is no record.
StockOf(s, c, v) ==
    IF FindOne(s, [codigo |-> c, volumen |-> v]) = 0 THEN 0
    ELSE s[FindOne(s, [codigo |-> c, volumen |-> v])].stock

\* The sum of the stock values the entries for (codigo, volumen) carry.
RECURSIVE PostedStock(_, _, _, _)
PostedStock(products, c, v, i) ==
    IF i > Len(products) THEN 0
    ELSE (IF products[i].codigo = c /\ products[i].volumen = v
          THEN OrZero(products[i], "stock") ELSE 0)
         + PostedStock(products, c, v, i + 1)

\* The documented defaults, by the type of the field.
StringFields ==
    {"nombre", "location", "descripcion", "marca", "categoria",
     "imagen_primaria", "imagen_secundaria", "imagen_alternativa"}

NumberFields ==
    {"concentracion_alcohol", "precio", "precio_neto", "precio_neto_cs",
     "porcentaje_descuento", "precio_con_descuento", "stock"}

DocumentedDefault(f) ==
    CASE f \in StringFields -> ""
      [] f \in NumberFields -> 0
      [] f = "genero" -> "Unisex"
      [] f = "etiquetas" -> <<>>
      [] f = "tiene_descuento" -> FALSE

\* The record the flat-stock revision is expected to hold for payload p.
ExpectedRecord(p) ==
    [f \in {"codigo", "volumen", "genero", "etiquetas", "tiene_descuento"}
           \cup StringFields \cup NumberFields |->
        IF Has(p, f) THEN p[f] ELSE DocumentedDefault(f)]

GetByCodigo(c) == Request("GET", <<"products", c>>, NoAuth, NoBody)

(***************************************************************************)
(* C1.  Stock accumulation in the flat-stock revision: after a successful  *)
(* POST /products the stock stored under every (codigo, volumen) the body  *)
(* names is the stock stored before plus the sum of the stock values the   *)
(* body posts for that key (an omitted stock counting 0).                  *)
(* The handler writes stock with $set, so the last posted value replaces   *)
(* the stored one: TLC refutes the statement.                              *)
(***************************************************************************)
C1_StockAccumulates ==
    [][(rev = "flat" /\ AnswersPost /\ res'.status = 200)
        => \A c \in Codigos, v \in PresentacionEnum :
              PostedStock(Products(req'.body), c, v, 1) > 0
              => StockOf(store', c, v)
                    = StockOf(store, c, v)
                      + PostedStock(Products(req'.body), c, v, 1)]_vars

(***************************************************************************)
(* C2.  Create/read round trip in the flat-stock revision: when a valid    *)
(* payload P whose codigo no stored record has is posted, GET              *)
(* /products/:codigo on the resulting store answers 200 with the record    *)
(* that has P's codigo, volumen and fields, every omitted field at its     *)
(* documented default.                                                     *)
(***************************************************************************)
C2_CreateReadRoundTrip ==
    [][(/\ rev = "flat"
        /\ AnswersPost
        /\ Len(Products(req'.body)) = 1
        /\ AllValid(rev, req'.body)
        /\ FindOne(store, [codigo |-> Products(req'.body)[1].codigo]) = 0)
        => DbRespond(rev, store', GetByCodigo(Products(req'.body)[1].codigo),
                     now).res
              = [status |-> 200,
                 body |-> ExpectedRecord(Products(req'.body)[1])]]_vars

\* A payload that omits every optional field was posted under a fresh codigo
\* and created the one record with that codigo.
C2_Witness ==
    /\ rev = "flat"
    /\ PostAnswered
    /\ ~req.body.array
    /\ DOMAIN req.body.obj = {"codigo", "volumen"}
    /\ res.status = 200
    /\ res.body.insertedCount = 1
    /\ Cardinality({i \in 1..Len(store) : store[i].codigo = req.body.obj.codigo}) = 1

(***************************************************************************)
(* C3.  Idempotence of descriptive fields, every database-backed revision: *)
(* when a body whose entries are all valid is posted a second time, the    *)
(* second POST adds no record and leaves every descriptive field of every  *)
(* record as the first POST left it.                                       *)
(***************************************************************************)
C3_DescriptiveIdempotent ==
    [][(/\ attempt = 1
        /\ attempt' = 2
        /\ req.method = "POST"
        /\ AllValid(rev, req.body)
        /\ res.status = 200)
        => /\ Len(store') = Len(store)
           /\ Descriptive(rev, store') = Descriptive(rev, store)]_vars

\* A body of two valid entries with non-default fields has been posted twice.
C3_Witness ==
    /\ attempt = 2
    /\ PostAnswered
    /\ res.status = 200
    /\ Len(Products(req.body)) = 2
    /\ AllValid(rev, req.body)
    /\ \E i \in 1..Len(store) : store[i].marca = "Dior"

(***************************************************************************)
(* C4.  Batch partial failure under the skip-invalid policy (part_000,     *)
(* nested, mixed): the response reports exactly the invalid entries, each  *)
(* once and in order; the store is what the valid entries alone would have *)
(* left (nothing is written for an invalid entry), and every valid entry   *)
(* has its record under (codigo, location).                                *)
(***************************************************************************)
C4_SkipInvalid ==
    [][(rev \in SkipInvalidRevs /\ AnswersPost)
        => /\ ReportedEntries(res'.body) = InvalidEntries(rev, req'.body)
           /\ store' = PostProducts(rev, store,
                                    [array |-> TRUE,
                                     list |-> ValidEntries(rev, req'.body)]).store
           /\ \A i \in 1..Len(ValidEntries(rev, req'.body)) :
                 LET p == ValidEntries(rev, req'.body)[i]
                 IN  FindOne(store',
                             [codigo |-> p.codigo,
                              location |-> IF Has(p, "location")
                                           THEN p.location ELSE ""]) # 0]_vars

\* A list with a valid and an invalid entry was posted: one error record,
\* and the valid entry's record is in the store.
C4_Witness ==
    /\ rev \in SkipInvalidRevs
    /\ PostAnswered
    /\ Len(InvalidEntries(rev, req.body)) = 1
    /\ Len(ValidEntries(rev, req.body)) = 1
    /\ Len(ReportedEntries(res.body)) = 1
    /\ FindOne(store, [codigo |-> ValidEntries(rev, req.body)[1].codigo]) # 0

(***************************************************************************)
(* C5.  POST /products status contract.  As claimed for every              *)
(* database-backed revision: 400 when an entry fails the required-field    *)
(* test, 200 with the counts when none does.  The skip-invalid revisions   *)
(* answer 200 to a body with invalid entries: TLC refutes it.              *)
(***************************************************************************)
CountFields == {"status", "insertedCount", "modifiedCount"}

CarriesCounts(r, body) ==
    IF r = "flat" THEN CountFields \subseteq DOMAIN body
    ELSE \E i \in 1..Len(body) : CountFields \subseteq DOMAIN body[i]

C7_DeleteAllEmptiesStore ==
    [][(/\ rev \in DbRevs
        /\ Answers
        /\ req'.method = "DELETE"
        /\ req'.path = <<"products", "all">>
        /\ Len(store) > 0)
        => res'.status = 200 /\ store' = <<>>]_vars

(***************************************************************************)
(* C8.  Delete of something absent: DELETE /products/:codigo for a codigo  *)
(* no stored record has answers 404 and leaves the store unchanged, and    *)
(* DELETE /products/all on an empty store answers 404.                     *)
(***************************************************************************)
C8_DeleteAbsent ==
    [][(/\ rev \in DbRevs
        /\ Answers
        /\ req'.method = "DELETE"
        /\ Len(req'.path) = 2
        /\ req'.path[1] = "products")
        => /\ FindOne(store, [codigo |-> req'.path[2]]) = 0
                => res'.status = 404 /\ store' = store
           /\ (req'.path[2] = "all" /\ store = <<>>) => res'.status = 404]_vars

\* DELETE /products/all was answered 404 on an empty store.
C8_Witness ==
    /\ rev \in DbRevs
    /\ attempt > 0
    /\ req.method = "DELETE"
    /\ req.path = <<"products", "all">>
    /\ res.status = 404
    /\ store = <<>>

(***************************************************************************)
(* C9.  Bearer-token gate of the database-backed revisions: on every path  *)
(* but /health a request without Authorization header is answered 401 and  *)
(* a request whose token fails verification 400.                           *)
(* The gate is registered after the routes, so a route that matches        *)
(* answers before the gate is reached: TLC refutes the statement.          *)
(***************************************************************************)
TokenFails(auth, t) ==
    auth.header = "bearer"
    /\ ~(auth.key = JWT_SECRET /\ (auth.exp = NoExp \/ t < auth.exp))

C9_TokenGate ==
    (rev \in DbRevs /\ attempt > 0 /\ req.path # <<"health">>)
    => /\ req.auth.header = "none" => res.status = 401
       /\ TokenFails(req.auth, now) => res.status = 400

(***************************************************************************)
(* C10.  Bearer-token gate of the in-memory revisions: POST /token is      *)
(* answered 200 whatever the Authorization header; POST /products without  *)
(* a header is answered 401 and with a token that fails verification 403,  *)
(* the inventory unchanged; and the inventory changes only in a POST       *)
(* /products whose token verifies under JWT_SECRET.                        *)
(***************************************************************************)
TokenVerifies(auth, t) ==
    auth.header = "bearer"
    /\ auth.key = JWT_SECRET
    /\ (auth.exp = NoExp \/ t < auth.exp)

C10_MemGate ==
    [][/\ (Answers /\ req'.method = "POST" /\ req'.path = <<"token">>)
            => res'.status = 200
       /\ (AnswersPost /\ req'.auth.header = "none")
            => res'.status = 401 /\ inventory' = inventory
       /\ (AnswersPost /\ (TokenFails(req'.auth, now)
                            \/ req'.auth.header = "schemeOnly"))
            => res'.status = 403 /\ inventory' = inventory
       /\ inventory' # inventory
            => AnswersPost /\ TokenVerifies(req'.auth, now)]_vars

\* An issued token that has expired was refused with 403 while the
\* inventory holds a product appended earlier.
C10_Witness ==
    /\ rev \in MemRevs
    /\ PostAnswered
    /\ req.auth \in issued
    /\ res.status = 403
    /\ Len(inventory) > 0

(***************************************************************************)
(* C11.  Identifier validation on the by-id routes: in every revision that *)
(* defines them, GET, PUT and DELETE on /products/id/:id with an :id that  *)
(* is no ObjectId are answered 400 and the store stays as it is.           *)
(* GET /products/id/:id calls findById without a check (500), and in the   *)
(* nested and mixed revisions PUT /products/:codigo/:talla answers the PUT *)
(* (404 or 500): TLC refutes the statement.                                *)
(***************************************************************************)
\* The revision registers a route for method m on /products/id/:id.
DefinesById(r, m) ==
    \/ r \in {"nested", "mixed"} /\ m \in {"GET", "PUT"}
    \/ r = "flat" /\ m \in {"PUT", "DELETE"}

\* The step answers a request on /products/id/:id.
AnswersById ==
    /\ Answers
    /\ Len(req'.path) = 3
    /\ req'.path[1] = "products"
    /\ req'.path[2] = "id"

C11_InvalidIdRejected ==
    [][(/\ AnswersById
        /\ DefinesById(rev, req'.method)
        /\ ~ObjectIdIsValid(req'.path[3]))
        => res'.status = 400 /\ store' = store]_vars

(***************************************************************************)
(* C12.  PUT /products/:codigo replaces the whole document: after a PUT    *)
(* answered 200 with body B the stored record consists of B's fields, so a *)
(* field B does not mention (the key and the identifier aside) is gone or  *)
(* back at its schema default, and the response carries the new record.    *)
(* findOneAndUpdate(filter, req.body) sets the fields of B and keeps the   *)
(* others: TLC refutes the statement.                                      *)
(***************************************************************************)
\* The step answers PUT /products/:codigo.
AnswersPutCodigo ==
    /\ Answers
    /\ req'.method = "PUT"
    /\ Len(req'.path) = 2
    /\ req'.path[1] = "products"

\* Position in the store, before the step, of the record the step is about.
Target == FindOne(store, [codigo |-> req'.path[2]])

C12_PutReplaces ==
    [][(AnswersPutCodigo /\ res'.status = 200)
        => /\ res'.body = store'[Target]
           /\ \A f \in (DOMAIN store[Target]) \ ((DOMAIN req'.body.obj) \cup {"_id", "codigo"}) :
                \/ ~Has(store'[Target], f)
                \/ Has(Defaults(rev), f) /\ store'[Target][f] = Defaults(rev)[f]
                \/ f = "presentaciones" /\ store'[Target][f] = <<>>]_vars

(***************************************************************************)
(* C13.  PATCH /products/location/:codigo updates the location only: a     *)
(* missing or empty location is answered 400 and an unknown codigo 404,    *)
(* both with the store unchanged; a successful request sets the location   *)
(* of one record with that codigo to the body's value and leaves every     *)
(* other field of it and every other record as they were.                  *)
(***************************************************************************)
\* The step answers PATCH /products/location/:codigo.
AnswersPatchLocation ==
    /\ Answers
    /\ req'.method = "PATCH"
    /\ Len(req'.path) = 3
    /\ req'.path[1] = "products"
    /\ req'.path[2] = "location"

\* Position in the store, before the step, of the record the PATCH is about.
PatchTarget == FindOne(store, [codigo |-> req'.path[3]])

C13_PatchLocationOnly ==
    [][AnswersPatchLocation
        => IF Falsy(req'.body.obj, "location")
           THEN res'.status = 400 /\ store' = store
           ELSE IF PatchTarget = 0
           THEN res'.status = 404 /\ store' = store
           ELSE res'.status = 200
                => store' = [store EXCEPT ![PatchTarget] =
                                [location |-> req'.body.obj.location] @@ @]]_vars

\* A PATCH has moved one of two stored records to the location of its body.
C13_Witness ==
    /\ attempt = 1
    /\ req.method = "PATCH"
    /\ res.status = 200
    /\ Len(store) = 2
    /\ \E i \in 1..Len(store) :
          /\ store[i].codigo = req.path[3]
          /\ store[i].location = req.body.obj.location

(***************************************************************************)
(* C14.  Store rejection of the batch: whenever the store rejects the bulk *)
(* write of POST /products, a uniqueness conflict included, the request is *)
(* answered 500 with the generic message and the error's text, and the     *)
(* write is not tried again.  As stated, TLC refutes it: the flat-stock    *)
(* revision answers a duplicate key with 400.                              *)
(***************************************************************************)
\* The step answers a POST /products whose bulk write the store rejected.
AnswersRejected == AnswersPost /\ rejected'.k > 0

\* The operations the rejected write consisted of.
RejectedOps == BulkOps(rev, req'.body)

C14_RejectionIs500 ==
    [][AnswersRejected => res'.status = 500]_vars

\* C14 as the code has it: a rejected bulk write is answered 500 with the
\* generic message and the error's text, except that the flat-stock
\* revision answers a duplicate key (error code 11000) with 400; in both
\* cases the write is not tried again: no operation from the rejected one
\* on reaches the store.
C14_RejectionAnswered ==
    [][AnswersRejected
        => /\ IF rev = "flat" /\ rejected'.error = DuplicateKeyError
              THEN /\ res'.status = 400
                   /\ res'.body.error = "Duplicate product"
              ELSE /\ res'.status = 500
                   /\ res'.body.error = "Internal server error"
                   /\ res'.body.details = rejected'.error.message
           /\ \A written \in {BulkWrite(rev, store,
                                SubSeq(RejectedOps, 1, rejected'.k - 1)).store} :
                 store' = AssignIds(written, nextId, 1)]_vars

\* The flat-stock revision has answered a duplicate key at the second
\* operation of a batch.
C14_Witness ==
    /\ rev = "flat"
    /\ attempt = 1
    /\ rejected.k = 2
    /\ rejected.error = DuplicateKeyError
    /\ res.status = 400

(***************************************************************************)
(* C15.  Compound-key uniqueness in the flat-stock revision: in no         *)
(* reachable state do two stored records share (codigo, volumen), and a    *)
(* request that would make two records share the pair is rejected with    *)
(* the store unchanged.                                                    *)
(***************************************************************************)
\* Position, before the step, of the record a PUT of the flat-stock
\* revision is about: by codigo or by identifier; 0 when there is none.
PutTarget ==
    IF Len(req'.path) = 2 THEN FindOne(store, [codigo |-> req'.path[2]])
    ELSE IF Len(req'.path) = 3 /\ req'.path[2] = "id"
    THEN FindById(store, req'.path[3])
    ELSE 0

\* The value a PUT gives field f of its target: the body's, else the old.
PutValue(f) ==
    IF Has(req'.body.obj, f) THEN req'.body.obj[f] ELSE store[PutTarget][f]

\* The step answers a PUT that would give its target the key of another
\* record.
AnswersOffendingPut ==
    /\ Answers
    /\ req'.method = "PUT"
    /\ PutTarget # 0
    /\ \E j \in 1..Len(store) :
          /\ j # PutTarget
          /\ store[j].codigo = PutValue("codigo")
          /\ store[j].volumen = PutValue("volumen")

C15_CompoundKeyUnique ==
    /\ [](rev = "flat"
            => \A i, j \in 1..Len(store) :
                  (/\ store[i].codigo = store[j].codigo
                   /\ store[i].volumen = store[j].volumen) => i = j)
    /\ [][(rev = "flat" /\ AnswersOffendingPut)
            => res'.status >= 400 /\ store' = store]_vars

\* A PUT that would have made the two stored records share their key has
\* been refused.
C15_Witness ==
    /\ rev = "flat"
    /\ attempt = 1
    /\ req.method = "PUT"
    /\ Has(req.body.obj, "volumen")
    /\ res.status = 500
    /\ Len(store) = 2
    /\ store[1].volumen # store[2].volumen
    /\ req.body.obj.volumen \in {store[1].volumen, store[2].volumen}

(***************************************************************************)
(* C16.  Business-code uniqueness in the revisions with nested             *)
(* presentaciones: in no state reachable by POST /products, PUT and PATCH  *)
(* /products/location requests do two stored records have the same        *)
(* codigo; a POST for a stored codigo updates that record whatever         *)
(* location the payload carries.                                           *)
(* The upsert filters on {codigo, location}: a payload with another        *)
(* location inserts a second record, and TLC refutes the statement.        *)
(***************************************************************************)
C16_CodigoUnique ==
    rev # "flat"
    => \A i, j \in 1..Len(store) : store[i].codigo = store[j].codigo => i = j

(***************************************************************************)
(* C17.  NotFound on point operations: GET and PUT /products/:codigo, and  *)
(* GET and PUT /products/id/:id in the revisions that define them, when    *)
(* addressed to a key or a well-formed id that no stored record has, are   *)
(* answered 404 and leave the store unchanged.                             *)
(* In the nested and mixed revisions PUT /products/id/:id is answered by   *)
(* PUT /products/:codigo/:talla, which throws on a record whose codigo is  *)
(* "id" when the query drops the unknown path tallas.talla: TLC refutes    *)
(* the statement.                                                          *)
(***************************************************************************)
\* The step answers GET or PUT /products/:codigo for a codigo not stored.
AnswersAbsentCodigo ==
    /\ Answers
    /\ req'.method \in {"GET", "PUT"}
    /\ Len(req'.path) = 2
    /\ req'.path[1] = "products"
    /\ FindOne(store, [codigo |-> req'.path[2]]) = 0

\* The step answers GET or PUT /products/id/:id, in a revision that defines
\* the route, for a well-formed id not stored.
AnswersAbsentId ==
    /\ AnswersById
    /\ req'.method \in {"GET", "PUT"}
    /\ DefinesById(rev, req'.method)
    /\ ObjectIdIsValid(req'.path[3])
    /\ FindById(store, req'.path[3]) = 0

C17_AbsentIs404 ==
    [][(AnswersAbsentCodigo \/ AnswersAbsentId)
        => res'.status = 404 /\ store' = store]_vars

(***************************************************************************)
(* C18.  Failure isolation: every request that reaches a route handler or  *)
(* the token middleware eventually receives exactly one response; a store  *)
(* operation or payload access that throws inside a handler produces an    *)
(* error response for that request, and the process keeps running and      *)
(* serving later requests.                                                 *)
(***************************************************************************)
\* The step is one in which a store operation of the handler threw.
StoreThrows == rejected'.k > 0 /\ rejected.k = 0

\* The step runs the in-memory POST /products on a body without variantes,
\* whose req.body.variantes.map throws.
PayloadThrows ==
    /\ rev \in MemRevs
    /\ Answers
    /\ Handler(rev, req', now) = "POST /products"
    /\ ~Has(req'.body, "variantes")

\* A response, once out, is the only one of its request.
OneResponse == [][sent => (res' = res \/ ~sent')]_vars

\* C18 as stated: every throw is answered 500.  The flat-stock revision
\* answers a duplicate key thrown by the bulk write with 400, and TLC
\* refutes the statement.
C18_ThrowIs500 ==
    /\ Pending ~> sent
    /\ OneResponse
    /\ []up
    /\ [][(StoreThrows \/ PayloadThrows)
            => res'.status = 500]_vars

\* C18 as the code has it: the error response is 500, or 400 when the
\* flat-stock revision's bulk write throws a duplicate key.
C18_FailureIsolation ==
    /\ Pending ~> sent
    /\ OneResponse
    /\ []up
    /\ [][(StoreThrows \/ PayloadThrows)
            => res'.status =
                    IF rev = "flat" /\ rejected'.error = DuplicateKeyError
                    THEN 400 ELSE 500]_vars

\* A store operation has thrown in a process that already holds records;
\* the request is answered 500 and the process runs.
C18_Witness ==
    /\ up
    /\ sent
    /\ rejected.k > 0
    /\ res.status = 500
    /\ Len(store) > 0

(***************************************************************************)
(* C19.  Per-batch result counts: in the success result of POST /products  *)
(* insertedCount is the number of records the batch created and            *)
(* modifiedCount the number of previously stored records the batch         *)
(* changed, so that their sum never exceeds the number of valid entries.   *)
(* modifiedCount is MongoDB's count of operations that changed a document: *)
(* a batch that names a key twice counts the record it has just inserted,  *)
(* or counts one record twice, and TLC refutes the statement.              *)
(***************************************************************************)
\* The success result of the response: the body in the flat-stock revision,
\* the last record of the list in the others.
SuccessResult == IF rev = "flat" THEN res'.body ELSE res'.body[Len(res'.body)]

\* The step answers a POST /products with a success result.
AnswersCounts ==
    /\ AnswersPost
    /\ res'.status = 200
    /\ CarriesCounts(rev, res'.body)

\* The records the step created, and the previously stored ones it changed.
Created == Len(store') - Len(store)
Changed == Cardinality({i \in 1..Len(store) : store'[i] # store[i]})

C19_ResultCounts ==
    [][AnswersCounts
        => /\ SuccessResult.insertedCount = Created
           /\ SuccessResult.modifiedCount = Changed
           /\ SuccessResult.insertedCount + SuccessResult.modifiedCount
                <= Len(ValidEntries(rev, req'.body))]_vars

(***************************************************************************)
(* C20.  The batch write is not transactional: when the store rejects the  *)
(* k-th operation of a POST /products batch, the operations before k stay  *)
(* applied, no operation from k on is applied, the handler answers with an *)
(* error status and rolls nothing back.                                    *)
(***************************************************************************)
\* The store the operations before the rejected one leave.
AppliedBefore ==
    BulkWrite(rev, store, SubSeq(RejectedOps, 1, rejected'.k - 1)).store

C20_NotTransactional ==
    [][AnswersRejected
        => /\ res'.status >= 400
           /\ \A applied \in {AppliedBefore} :
                 store' = AssignIds(applied, nextId, 1)]_vars

\* The second operation of a bulk write was rejected, and the record its
\* first operation inserted is in the store.
C20_Witness ==
    /\ attempt = 1
    /\ rejected.k = 2
    /\ res.status = 500
    /\ nextId = 2
    /\ Len(store) = 1
    /\ store[1]._id = "1"


(***************************************************************************)
(* C21.  Record creation in the nested-presentations revisions: a POST     *)
(* /products entry with an unseen (codigo, location) and presentaciones    *)
(* (p1, s1) ... (pn, sn) creates a record whose presentaciones list holds  *)
(* each pi with stock si, a missing stock counting 0, and a following GET  *)
(* /products/:codigo returns them.                                         *)
(* The handler builds presentacionesUpdate and never uses it: the upsert   *)
(* writes the descriptive fields only, and the $inc operations match no    *)
(* element of the empty list the insert leaves.  TLC refutes the           *)
(* statement.                                                              *)
(***************************************************************************)
\* The presentaciones list the payload asks for.
PostedPresentaciones(p) ==
    [j \in 1..Len(p.presentaciones) |->
        [presentacion |-> p.presentaciones[j].presentacion,
         stock |-> OrZero(p.presentaciones[j], "stock")]]

\* The upsert key of a payload in the nested-presentations revisions.
UpsertKey(r, p) == [codigo |-> p.codigo, location |-> SetDoc(r, p).location]

\* The step answers a POST /products of one valid entry with 200.
AnswersSinglePost ==
    /\ AnswersPost
    /\ ~req'.body.array
    /\ ~MissingRequired(rev, req'.body.obj)
    /\ res'.status = 200

C21_RecordCreated ==
    [][(rev \in NestedRevs /\ AnswersSinglePost
        /\ FindOne(store, UpsertKey(rev, req'.body.obj)) = 0)
       => /\ FindOne(store', UpsertKey(rev, req'.body.obj)) # 0
          /\ store'[FindOne(store', UpsertKey(rev, req'.body.obj))].presentaciones
                = PostedPresentaciones(req'.body.obj)
          /\ (FindOne(store, [codigo |-> req'.body.obj.codigo]) = 0
              => GetProductsCodigo(store', req'.body.obj.codigo).res.body.presentaciones
                    = PostedPresentaciones(req'.body.obj))]_vars


(***************************************************************************)
(* C22.  Stock increment in the nested-presentations revisions: a POST     *)
(* /products entry for a stored (codigo, location) adds to the stock of    *)
(* every presentation the record holds exactly the stock the payload posts *)
(* for it (a missing stock or 0 adds nothing), leaves the stock of the     *)
(* presentations the payload does not name as it was, and neither adds nor *)
(* removes a presentation of the record.                                   *)
(***************************************************************************)
\* The sum of the stock values payload p posts for presentation name.
RECURSIVE PostedFor(_, _, _)
PostedFor(p, name, j) ==
    IF j > Len(p.presentaciones) THEN 0
    ELSE (IF p.presentaciones[j].presentacion = name
          THEN OrZero(p.presentaciones[j], "stock") ELSE 0)
         + PostedFor(p, name, j + 1)

\* The positional operator reaches the first element that names it.
StockAfter(doc, p, j) ==
    OrZero(doc.presentaciones[j], "stock")
    + (IF j = PresIndex(doc, doc.presentaciones[j].presentacion)
       THEN PostedFor(p, doc.presentaciones[j].presentacion, 1) ELSE 0)

C22_StockIncrement ==
    [][(rev \in NestedRevs /\ AnswersSinglePost
        /\ FindOne(store, UpsertKey(rev, req'.body.obj)) # 0)
       => \A i \in {FindOne(store, UpsertKey(rev, req'.body.obj))} :
            /\ Len(store') = Len(store)
            /\ Len(store'[i].presentaciones) = Len(store[i].presentaciones)
            /\ \A j \in 1..Len(store[i].presentaciones) :
                /\ store'[i].presentaciones[j].presentacion
                      = store[i].presentaciones[j].presentacion
                /\ OrZero(store'[i].presentaciones[j], "stock")
                      = StockAfter(store[i], req'.body.obj, j)]_vars

\* A POST has added 5 to the 50ml stock of a record that held 50ml with
\* stock 1 and 100ml with stock 2.
C22_Witness ==
    /\ rev \in NestedRevs
    /\ PostAnswered
    /\ ~req.body.array
    /\ res.status = 200
    /\ ~MissingRequired(rev, req.body.obj)
    /\ PostedFor(req.body.obj, "50ml", 1) = 5
    /\ FindOne(store, UpsertKey(rev, req.body.obj)) # 0
    /\ store[FindOne(store, UpsertKey(rev, req.body.obj))].presentaciones
          = <<[presentacion |-> "50ml", stock |-> 6],
              [presentacion |-> "100ml", stock |-> 2]>>


(***************************************************************************)
(* C23.  Independent per-entry validation under the skip-invalid policy:   *)
(* an entry that cannot be processed (null, no object, or with a           *)
(* presentaciones that is no list) is reported as an error record for that *)
(* entry, and the valid entries of the same batch are still applied to the *)
(* store.                                                                  *)
(* Only the required-field test is per entry.  Reading codigo of a null    *)
(* entry throws, and so does presentaciones.map on a value that is no      *)
(* array; the loop runs inside the handler's one try block, so the catch   *)
(* answers 500 for the whole request before any entry is written.  TLC     *)
(* refutes the statement.                                                  *)
(***************************************************************************)
\* The entry cannot be processed.
Unprocessable(p) ==
    \/ p \in {JsonNull, JsonNumber}
    \/ Has(p, "presentaciones") /\ p.presentaciones = NotAList

\* The entry is a well-formed payload with the required fields.
Processable(r, p) == ~Unprocessable(p) /\ ~MissingRequired(r, p)

C23_PerEntryValidation ==
    [][(rev \in SkipInvalidRevs /\ AnswersPost /\ rejected' = NoRejection
        /\ \E i \in 1..Len(Products(req'.body)) :
              Unprocessable(Products(req'.body)[i]))
       => /\ res'.status = 200
          /\ \A i \in 1..Len(Products(req'.body)) :
                /\ Unprocessable(Products(req'.body)[i])
                   => \E k \in 1..Len(ReportedEntries(res'.body)) :
                         ReportedEntries(res'.body)[k] = Products(req'.body)[i]
                /\ Processable(rev, Products(req'.body)[i])
                   => FindOne(store', UpsertKey(rev, Products(req'.body)[i])) # 0]_vars


(***************************************************************************)
(* C24.  Lookup by internal identifier on the short paths of the           *)
(* flat-stock revision: GET /products/:_id, PUT /products/:_id and PATCH   *)
(* /products/location/:_id answer 200 with the record whose _id the path   *)
(* carries, which they read or update, and 400 'Invalid product ID         *)
(* format' when the value is no ObjectId.                                  *)
(* The same paths are registered earlier with :codigo, so the identifier   *)
(* handlers are never reached: the value is looked up as a business code.  *)
(* TLC refutes the statement.                                              *)
(***************************************************************************)
\* The step answers a request on one of the short paths; ShortParam is the
\* value in the place of the parameter.
AnswersShortPath ==
    /\ rev = "flat"
    /\ Answers
    /\ \/ req'.method \in {"GET", "PUT"} /\ Len(req'.path) = 2
                                         /\ req'.path[1] = "products"
       \/ req'.method = "PATCH" /\ Len(req'.path) = 3
                                /\ SubSeq(req'.path, 1, 2) = <<"products", "location">>

ShortParam == req'.path[Len(req'.path)]

C24_ShortPathsById ==
    [][AnswersShortPath
       => /\ FindById(store, ShortParam) # 0
             => /\ res'.status = 200
                /\ res'.body._id = ShortParam
                /\ \A i \in 1..Len(store) :
                      store[i]._id # ShortParam => store'[i] = store[i]
          /\ ~ObjectIdIsValid(ShortParam)
             => /\ res'.status = 400
                /\ res'.body = [error |-> "Invalid product ID format"]]_vars


(***************************************************************************)
(* C25.  Additive stock on PUT /products/id/:id in the flat-stock revision *)
(* under every interleaving: a request that carries the stock delta d and  *)
(* is answered 200 leaves the record with d more than the store held when  *)
(* its write ran, so that requests d1 ... dn, sequential or concurrent,    *)
(* leave s + d1 + ... + dn and no delta is lost between the read of the    *)
(* current stock and the write of the new one.                             *)
(* The handler reads with findById, adds in the process and writes the sum *)
(* with findByIdAndUpdate: a write of another request between the two is   *)
(* overwritten.  TLC refutes the statement.                                *)
(***************************************************************************)
\* Handler h, which has read the stock of a stored record, resumes from
\* findByIdAndUpdate with a 200 in this step.
WritesStock(h) ==
    /\ handlers[h].pc = "write"
    /\ handlers[h].found
    /\ handlers'[h].pc = "done"
    /\ handlers'[h].res.status = 200

C25_AdditiveStock ==
    [][\A h \in 1..MaxHandlers :
         WritesStock(h)
         => \A i \in {FindById(store, handlers[h].q.path[3])} :
               store'[i].stock = store[i].stock + handlers[h].q.body.obj.stock]_vars

(***************************************************************************)
(* C26.  Concurrent first upserts: when two POST /products requests for    *)
(* the same unseen upsert key are handled concurrently, the store ends     *)
(* with one record for that key under every interleaving, in the           *)
(* nested-presentations revisions (key codigo and location) and in the     *)
(* flat-stock revision (key codigo and volumen), and both requests are     *)
(* answered.                                                               *)
(* The nested-presentations revisions create no unique index, so when both *)
(* query phases run before either insert, both upserts insert.  TLC        *)
(* refutes the statement.                                                  *)
(***************************************************************************)
\* The fields of the upsert filter of the revision.
UpsertKeyFields(r) ==
    IF r = "flat" THEN {"codigo", "volumen"} ELSE {"codigo", "location"}

C26_OneRecordPerKey ==
    (rev \in NestedRevs \cup {"flat"})
    => /\ \A i, j \in 1..Len(store) :
            Restrict(store[i], UpsertKeyFields(rev))
               = Restrict(store[j], UpsertKeyFields(rev)) => i = j
       /\ \A h \in 1..MaxHandlers :
            (handlers[h].pc = "done" /\ handlers[h].q.method = "POST")
            => handlers[h].res.status \in {200, 400}


(***************************************************************************)
(* C27.  Presentation merge on PUT /products/id/:id in the revision with   *)
(* flat and nested stock: after a successful PUT whose body lists          *)
(* presentaciones, every presentation the body names is in the record with *)
(* the stock the body gives, a stock of 0 included, every presentation it  *)
(* does not name keeps its stock, and no two elements of the record have   *)
(* the same presentacion.                                                  *)
(* No request reaches the handler in this revision (PUT                    *)
(* /products/:codigo/:talla answers first), so the property is stated of   *)
(* the handler on every stored record: whatever record the store holds,    *)
(* the handler's 200 for a body of MergeBodies leaves the merge the claim  *)
(* describes.  The handler writes newPres.stock || existingPres.stock, so  *)
(* a posted stock of 0 leaves the stored stock: TLC refutes the statement. *)
(***************************************************************************)
\* Bodies that list presentaciones: a stock of 0 for a name, a new stock
\* for one name and a name without stock.
MergeBodies ==
    {[presentaciones |-> <<[presentacion |-> "50ml", stock |-> 0]>>],
     [presentaciones |-> <<[presentacion |-> "100ml", stock |-> 4],
                           [presentacion |-> "75ml"]>>]}

\* The stock the body gives for the name; its last element of that name.
RECURSIVE GivenStock(_, _, _)
GivenStock(news, name, k) ==
    IF k = 0 THEN 0
    ELSE IF news[k].presentacion = name THEN OrZero(news[k], "stock")
    ELSE GivenStock(news, name, k - 1)

Names(pres) == {pres[j].presentacion : j \in 1..Len(pres)}

\* after is the merge the claim describes of before and the body's list.
MergedAsClaimed(before, after, news) ==
    /\ \A name \in Names(news) :
          \E j \in 1..Len(after) :
             /\ after[j].presentacion = name
             /\ OrZero(after[j], "stock") = GivenStock(news, name, Len(news))
    /\ \A j \in 1..Len(before) :
          before[j].presentacion \notin Names(news)
          => \E k \in 1..Len(after) : after[k] = before[j]
    /\ \A j, k \in 1..Len(after) :
          after[j].presentacion = after[k].presentacion => j = k

C27_PresentationMerge ==
    rev = "mixed"
    => \A i \in 1..Len(store), body \in MergeBodies :
          \A out \in {PutProductsIdMixed(store, store[i]._id, body)} :
             out.res.status = 200
             => MergedAsClaimed(store[i].presentaciones,
                                out.store[i].presentaciones,
                                body.presentaciones)


(***************************************************************************)
(* C28.  Delete-then-read by business code in the flat-stock revision:     *)
(* when DELETE /products/:codigo has answered 200, the GET                 *)
(* /products/:codigo that follows it with no request in between answers    *)
(* 404, also when several volumes of the codigo were stored.               *)
(* The handler calls findOneAndDelete({codigo}), which removes one         *)
(* document; the records of the other volumes stay and the GET finds one.  *)
(* TLC refutes the statement.                                              *)
(***************************************************************************)
\* The step answers DELETE /products/:codigo with 200.
AnswersDeleted ==
    /\ Answers
    /\ req'.method = "DELETE"
    /\ Len(req'.path) = 2
    /\ req'.path[1] = "products"
    /\ req'.path[2] # "all"
    /\ res'.status = 200

C28_DeleteThenRead ==
    [][(rev = "flat" /\ AnswersDeleted)
       => CrudRespond(rev, store', GetByCodigo(req'.path[2]), now, FALSE).res.status
             = 404]_vars


(***************************************************************************)
(* C29.  In-memory inventory growth: the inventory list changes only       *)
(* through POST /products.  Every authenticated POST whose body has a      *)
(* variantes list appends one product to the end of the list and answers   *)
(* 201 with it, each variant with tiene_descuento false,                   *)
(* porcentaje_descuento 0 and precio_con_descuento null where the payload  *)
(* omits them; a POST without variantes appends nothing; the list never    *)
(* shrinks or reorders; and it grows by one with every 201 and only then,  *)
(* so its length is the number of 201 responses sent so far.               *)
(***************************************************************************)
\* The step hands a POST /products to its handler (the gate has passed it).
HandlesMemPost ==
    /\ rev \in MemRevs
    /\ Answers
    /\ Handler(rev, req', now) = "POST /products"

\* The variant of the response carries the defaults for what v omits.
VariantDefaults(v, out) ==
    /\ \A f \in DOMAIN v : out[f] = v[f]
    /\ ~Has(v, "tiene_descuento") => out.tiene_descuento = FALSE
    /\ ~Has(v, "porcentaje_descuento") => out.porcentaje_descuento = 0
    /\ ~Has(v, "precio_con_descuento") => out.precio_con_descuento = Null

BadGenero(p) == Has(p, "genero") /\ p.genero \notin GeneroEnum

\* The step answers a POST or PUT under /products whose body, or an entry of
\* whose body, carries such a genero.
AnswersBadGenero ==
    /\ Answers
    /\ req'.method \in {"POST", "PUT"}
    /\ req'.path[1] = "products"
    /\ \E i \in 1..Len(Products(req'.body)) : BadGenero(Products(req'.body)[i])

C30_GeneroEnum ==
    /\ [](\A i \in 1..Len(store) : ~BadGenero(store[i]))
    /\ [][AnswersBadGenero => (res'.status = 400 /\ store' = store)]_vars

=============================================================================
